---- MODULE Spec2Model ----
EXTENDS Integers, Sequences, FiniteSets, TLC

\* ---------------------------------------------------------------- bounds

\* Largest number of tool calls in one detection response.
MaxToolCalls == 2
\* Largest number of deltas one streaming request delivers.
MaxChunks == 2
\* Largest max_iterations a caller passes to ChatAgent.chat_stream.
MaxAgentIterations == 3
\* Largest number of reload_config calls in one behaviour.
MaxReloads == 1
\* Number of registry operations that can be in flight together.
MaxTasks == 2
\* Longest list of tool entries in the configuration of app/mcp/registry.py.
MaxConfigs == 3
\* Largest absolute value of the numbers given to CalculatorTool, besides
\* the 10 and 5 of the scenario.
MaxNumber == 2
\* The count of initialize() calls on one client stops at this number.
MaxInitializeCalls == 2

\* The messages trim_history keeps: MAX_CONVERSATION_TURNS of
\* app/utils/constants.py, a file the sources do not include.
MAX_CONVERSATION_TURNS == 3

\* ------------------------------------------------------ program constants

\* ChatService.max_tool_iterations
max_tool_iterations == 4

VARIABLES
    entry,                \* how the request reaches the orchestrator
    svcPc,                \* position of ChatService.chat_stream
    iteration,            \* chat_stream: iteration
    functions,            \* chat_stream: functions (names exported by the registry)
    messages,             \* chat_stream: messages
    accumulated_content,  \* chat_stream: accumulated_content (non-empty deltas, in order)
    has_tool_calls,       \* chat_stream: has_tool_calls
    quick_detection,      \* chat_stream: quick_detection
    events,               \* events yielded by chat_stream so far
    detect_calls,         \* calls of tool_detector.detect_tool_calls in this request
    stream_requests,      \* streaming requests issued to the completion service
    llm_calls,            \* the calls of the completion service, in order, and whether each raised
    tool_batch,           \* the batch of tool calls being executed: the results of the calls resolved, how many have resolved and how many have started
    chunk_stream,         \* the call of stream_llm_response in progress: its request, the deltas of that request, the chunks yielded
    tool_iterations,      \* iterations in which tool calls were executed
    agPc,                 \* position of ChatAgent.chat_stream
    agIteration,          \* ChatAgent.chat_stream: iteration
    max_iterations,       \* ChatAgent.chat_stream: max_iterations
    agMessages,           \* ChatAgent.messages
    tool_call_data,       \* ChatAgent.chat_stream: tool_call_data
    stream,               \* ChatAgent.chat_stream: the chunks of the last stream, whether it raised, and the messages of its request
    stream_locals,        \* ChatAgent.chat_stream: the locals of the loop over the chunks, and the chunks not yet read
    agEvents,             \* tuples yielded by ChatAgent.chat_stream so far
    model_requests,       \* client.chat.completions.create calls in this request
    delivered,            \* SSE events delivered to the HTTP caller
    servers,              \* server_manager.servers, in configuration order
    tools,                \* MCPToolRegistry.tools
    tool_to_server,       \* MCPToolRegistry._tool_to_server
    mcp_clients,          \* MCPToolRegistry._mcp_clients, in insertion order
    client_initialized,   \* MCPToolRegistry._client_initialized
    fully_initialized,    \* MCPToolRegistry._fully_initialized
    generation,           \* how many times _create_clients has rebuilt the clients
    clientState,          \* connection state of the MCPClient of each server
    tasks,                \* the registry coroutines in flight and their locals
    mode,                 \* how the callers of the registry are scheduled
    hist,                 \* the operation completed last, the registry then, and the backends that listed their tools since the tool table was last empty
    initialize_calls,     \* per server, the calls of initialize() on its current client since it was created or close_all ended
    tool_configs,         \* app/mcp: what get_mcp_tools returns, in configuration order
    loaded,               \* app/mcp: MCPToolRegistry.__init__ has run
    cfg_tools,            \* app/mcp: MCPToolRegistry.tools
    tool_implementations, \* app/mcp: MCPToolRegistry._tool_implementations
    arguments,            \* CalculatorTool.execute: the arguments of the last call
    execution_result,     \* CalculatorTool.execute: the ToolExecutionResult of the last call
    tool_result,          \* format_tool_result_for_llm: the tool result given to it
    formatted             \* format_tool_result_for_llm: the content returned, and the branch that built it

svcVars == <<svcPc, iteration, functions, messages, accumulated_content,
             has_tool_calls, quick_detection, events, detect_calls,
             stream_requests, llm_calls, tool_batch, chunk_stream,
             tool_iterations>>

agVars == <<agPc, agIteration, max_iterations, agMessages, tool_call_data, stream,
            stream_locals, agEvents, model_requests>>

regVars == <<servers, tools, tool_to_server, mcp_clients, client_initialized,
             fully_initialized, generation, clientState, tasks, mode, hist,
             initialize_calls>>

localVars == <<tool_configs, loaded, cfg_tools, tool_implementations,
               arguments, execution_result, tool_result, formatted>>

vars == <<entry, svcVars, agVars, delivered, regVars, localVars>>

\* What the steps of ChatService.chat_stream leave alone.
svcFrame == <<entry, agVars, delivered, regVars, localVars>>

\* ------------------------------------------------------------ data shapes

None == "None"

\* Text deltas: the empty delta, a delta with text, and a delta whose text
\* suggests contacting Harry.
Deltas == {"", "txt", "harry"}

Chunk(c) == [type |-> "chunk", content |-> c]
ToolEvent(t, k) == [type |-> t, content |-> k]

\* The fixed chunk texts of chat.py.
Greeting == "greeting"
FallbackNoInfo == "tried_but_found_nothing"
FallbackGeneric == "processing_error"
HarryHint == "contact_harry_hint"
LLMErrorText == "llm_error_message"
UnexpectedErrorText == "unexpected_error"
OuterErrorText == "outer_error"

RECURSIVE Join(_)
Join(ss) == IF ss = <<>> THEN <<>> ELSE Head(ss) \o Join(Tail(ss))

RECURSIVE NonEmptyDeltas(_)
NonEmptyDeltas(cs) ==
    IF cs = <<>> THEN <<>>
    ELSE (IF Head(cs) = "" THEN <<>> ELSE <<Head(cs)>>) \o NonEmptyDeltas(Tail(cs))

\* Sequences of n copies of x.
Rep(x, n) == [i \in 1..n |-> x]

\* ------------------------------------------------- tool_result_formatter

check_tools_used_but_no_info(msgs) ==
    \E i \in 1..Len(msgs) : msgs[i].role = "tool" /\ msgs[i].content = "noinfo"

response_suggests_contact_harry(content) ==
    \E i \in 1..Len(content) : content[i] = "harry"

\* Texts, as the sequences of phrases they are made of. The phrases
\* check_tools_used_but_no_info looks for are, in the order of its list,
\* "meiyou zhaodao", "meiyou zhaodao pipei", "meiyou zhaodao xiangguan
\* xinxi", "weineng zhaodao", "zhaobudao" and "wufa zhaodao"; a text that
\* contains the second or the third contains the first.
Indicators == {"meiyou zhaodao", "weineng zhaodao", "zhaobudao", "wufa zhaodao"}

\* Texts a tool can put into a result: a fact, and a fact whose wording
\* contains one of the phrases.
Fact == <<"fact">>
FactWithPhrase == <<"fact", "zhaobudao">>

\* The value None of the key "answer".
AnswerNone == <<None>>

\* Tool results. keys is the set of keys of a dict; a key that is absent
\* has the first value listed for it.
ToolResults ==
    {r \in [type : {"str", "dict", "other"},
            keys : SUBSET {"text", "answers", "count", "answer", "found", "results",
                           "message"},
            text : {Fact, FactWithPhrase},
            answers : {<<>>, <<Fact>>, <<FactWithPhrase>>},
            count : {0, 1},
            answer : {AnswerNone, Fact, FactWithPhrase},
            found : BOOLEAN,
            results : {<<>>, <<Fact>>, <<FactWithPhrase>>},
            message : {<<"no match">>, <<"meiyou zhaodao", "pipei">>}] :
        /\ r.type # "dict" => r.keys = {}
        /\ (r.type = "dict" /\ "text" \notin r.keys) => r.text = Fact
        /\ r.type = "other" => r.text = Fact
        /\ "answers" \notin r.keys => r.answers = <<>>
        /\ "count" \notin r.keys => r.count = 0
        /\ "answer" \notin r.keys => r.answer = AnswerNone
        /\ "found" \notin r.keys => r.found = FALSE
        /\ "results" \notin r.keys => r.results = <<>>
        /\ "message" \notin r.keys => r.message = <<"no match">>}

\* The content returned and the branch that built it: the text as it came,
\* a nothing-found notice, a found answer, or a serialization.
Formatted(content, shape) == [content |-> content, shape |-> shape]

\* Lines 11-145: format_tool_result_for_llm.
format_tool_result_for_llm(r) ==
    LET has(k) == k \in r.keys
        message(default) == IF has("message") THEN r.message ELSE <<default>>
        notice(default) ==
            <<"Tool result:">> \o message(default) \o <<"Suggestion: try other tools">>
    IN
    IF r.type = "str" THEN Formatted(r.text, "text")
    ELSE IF r.type # "dict" THEN Formatted(<<"str(tool_result)">>, "serialized")
    ELSE IF has("text") THEN Formatted(r.text, "text")
    ELSE IF has("answers")
    THEN LET count == IF has("count") THEN r.count ELSE Len(r.answers) IN
         IF r.answers = <<>> \/ count = 0
         THEN Formatted(notice("No matching answers found in FAQ database."),
                        "nothing_found")
         ELSE Formatted(<<"Tool returned results">> \o Join(r.answers)
                            \o <<"[Important Instructions]">>, "found")
    ELSE IF has("answer") \/ has("found")
    THEN LET answer == IF has("answer") THEN r.answer ELSE AnswerNone
             found == IF has("found") THEN r.found ELSE answer # AnswerNone
         IN
         IF ~found \/ answer = AnswerNone
         THEN Formatted(notice("No matching answer found."), "nothing_found")
         ELSE Formatted(<<"Tool returned result">> \o answer
                            \o <<"[Important Instructions]">>, "found")
    ELSE IF has("results")
    THEN IF r.results = <<>>
         THEN Formatted(<<"gongju fanhui de jieguo: zai zhishiku zhong",
                          "meiyou zhaodao", "xiangguan xinxi",
                          "[zhongyao tishi]">>, "nothing_found")
         ELSE Formatted(<<"gongju fanhui de jieguo">> \o Join(r.results)
                            \o <<"[zhongyao tishi]">>, "found")
    ELSE Formatted(<<"{">> \o (IF has("message") THEN r.message ELSE <<>>) \o <<"}">>,
                   "serialized")

\* Lines 163-174: the content of a tool message as check_tools_used_but_no_info
\* sees it, with one of the phrases in it or with none.
ToolContent(text) ==
    IF \E i \in 1..Len(text) : text[i] \in Indicators THEN "noinfo" ELSE "info"

\* ------------------------------------------------------ StreamingService

should_stream_response(it, fns, htc) ==
    IF it > 1 THEN TRUE
    ELSE IF it = 1 /\ fns = {} THEN TRUE
    ELSE IF it = 1 /\ fns # {} /\ ~htc THEN TRUE
    ELSE FALSE

\* What one streaming request of the completion service can do: deliver some
\* deltas and end, or deliver some deltas and raise.
StreamRequests ==
    [chunks : {<<>>} \cup {Rep("txt", n) : n \in 1..MaxChunks}
                    \cup {<<"">> \o Rep("txt", n) : n \in 0..(MaxChunks - 1)}
                    \cup {<<"harry">>},
     raises : {None, "LLMError", "Exception"}]

\* One call of the completion service and whether it raised.
LlmCall(op, raised) == [op |-> op, raised |-> raised]

\* a is the beginning of b.
Prefix(a, b) == Len(a) <= Len(b) /\ SubSeq(b, 1, Len(a)) = a

\* No call of stream_llm_response is in progress. In progress, request is
\* 1 for the direct request and 2 for the request of the fallback
\* _stream_llm_client, got the deltas that request has delivered, and
\* chunk_count the chunks the call has yielded.
NoStream == [request |-> 0, got |-> <<>>, chunk_count |-> 0]

\* stream_llm_response(disable_tools=True), entered or resumed in state cs,
\* up to its next yield or its end: the direct request and, when it raises,
\* the request of the fallback _stream_llm_client. cur is what the request
\* in progress does (the direct one when none is), fallback what the
\* fallback request does when the direct one raises now, calls the calls of
\* the completion service so far. The result names the delta yielded or the
\* exception that leaves the generator, if any.
stream_llm_response(cs, calls, cur, fallback) ==
    LET issued == IF cs.request = 0 THEN Append(calls, LlmCall("stream", FALSE))
                  ELSE calls
        raised(cc) == [cc EXCEPT ![Len(cc)].raised = TRUE]
        yield(k, r, n, cc) ==
            [kind |-> "chunk", chunk |-> r.chunks[n], raises |-> None,
             stream |-> [request |-> k, got |-> SubSeq(r.chunks, 1, n),
                         chunk_count |-> cs.chunk_count + 1],
             calls |-> cc]
        end(exc, cc) ==
            [kind |-> IF exc = None THEN "end" ELSE "raise", chunk |-> "",
             raises |-> exc,
             stream |-> [NoStream EXCEPT !.chunk_count = cs.chunk_count],
             calls |-> IF exc = None THEN cc ELSE raised(cc)]
    IN
    IF Len(cur.chunks) > Len(cs.got)
    THEN yield(IF cs.request = 2 THEN 2 ELSE 1, cur, Len(cs.got) + 1, issued)
    ELSE IF cur.raises = None \/ cs.request = 2
    THEN end(cur.raises, issued)
    ELSE LET cc == Append(raised(issued), LlmCall("stream", FALSE)) IN
         IF fallback.chunks # <<>>
         THEN yield(2, fallback, 1, cc)
         ELSE end(fallback.raises, cc)

\* What a call of stream_llm_response in state cs can do next, over the
\* requests that begin with the deltas delivered so far.
StreamSteps(cs, calls) ==
    {stream_llm_response(cs, calls, cur, fallback) :
        <<cur, fallback>> \in
            {p \in StreamRequests \X StreamRequests :
                /\ Prefix(cs.got, p[1].chunks)
                /\ (\/ Len(p[1].chunks) > Len(cs.got)
                    \/ p[1].raises = None
                    \/ cs.request = 2) => p[2] = p[1]}}

\* ------------------------------------------------- ChatService.chat_stream

\* The while condition of the tool-calling loop.
LoopContinues(it) == it < max_tool_iterations

\* Fallback chunk of the zero-chunk and max-iteration branches.
FallbackChunk(msgs) ==
    IF check_tools_used_but_no_info(msgs)
    THEN Chunk(FallbackNoInfo) ELSE Chunk(FallbackGeneric)

\* The chunk of the except clauses of the loop body.
ErrorChunk(exc) ==
    IF exc = "LLMError" THEN Chunk(LLMErrorText) ELSE Chunk(UnexpectedErrorText)

\* The "联系Harry" hint appended after an answer that followed tools.
HintChunks(it, msgs, acc) ==
    IF it > 1 /\ check_tools_used_but_no_info(msgs)
             /\ ~response_suggests_contact_harry(acc)
    THEN <<Chunk(HarryHint)>> ELSE <<>>

\* Lines 99-116: the last max_turns messages; a leading system message is
\* kept. messages[-n:] is the last n messages for a positive n, the whole
\* list for n = 0, and the list without its first -n messages for a
\* negative n.
trim_history(msgs, max_turns) ==
    LET last(n) == IF n > 0
                   THEN SubSeq(msgs, IF n >= Len(msgs) THEN 1 ELSE Len(msgs) - n + 1,
                               Len(msgs))
                   ELSE IF -n >= Len(msgs) THEN <<>>
                   ELSE SubSeq(msgs, 1 - n, Len(msgs))
    IN
    IF Len(msgs) <= max_turns THEN msgs
    ELSE IF msgs # <<>> /\ msgs[1].role = "system"
    THEN <<msgs[1]>> \o last(max_turns - 1)
    ELSE last(max_turns)

\* The bodies of POST requests: the message, the history the frontend
\* sends, a list of dicts from strings to strings (an entry may lack its
\* content), and the uploaded files.
ChatRequests ==
    LET hi == [role |-> "user", content |-> "hi"]
        question == [role |-> "user", content |-> "question"]
        called == [role |-> "assistant"]
        hello == [role |-> "assistant", content |-> "hello"]
        tool == [role |-> "tool", content |-> "info"]
        system == [role |-> "system", content |-> "prompt"]
    IN {[message |-> None, messages |-> <<>>, files |-> <<>>],
        [message |-> "question", messages |-> <<>>, files |-> <<>>],
        [message |-> "", messages |-> <<question>>, files |-> <<>>],
        [message |-> "", messages |-> <<>>, files |-> <<"file">>],
        [message |-> "question", messages |-> <<hi, called, tool, system, hello>>,
         files |-> <<"file">>]}

\* Lines 118-164: the user and assistant messages of the history, without
\* their tool calls and with a content that is a string, then the body's
\* message with the formatted files, trimmed to the last
\* MAX_CONVERSATION_TURNS messages. format_files_for_message gives no text
\* for no file.
prepare_messages(request) ==
    LET file_content == IF request.files = <<>> THEN "" ELSE "file_content"
        message == IF request.message = None THEN "" ELSE request.message
        user_message == IF file_content = "" THEN message
                        ELSE IF message # "" THEN message \o "\n\n" \o file_content
                        ELSE file_content
        get(msg, key) == IF key \in DOMAIN msg THEN msg[key] ELSE ""
        clean(msg) == [role |-> get(msg, "role"), content |-> get(msg, "content")]
        kept == SelectSeq(request.messages,
                          LAMBDA msg : get(msg, "role") \in {"user", "assistant"})
        filtered_messages == [i \in 1..Len(kept) |-> clean(kept[i])]
    IN trim_history(IF user_message # ""
                    THEN Append(filtered_messages,
                                [role |-> "user", content |-> user_message])
                    ELSE filtered_messages,
                    MAX_CONVERSATION_TURNS)

\* Detection that does not ask whether any function is exported.
UsesDetectionAlways(fns, it) == it <= max_tool_iterations

\* Line 109: the iteration goes through detection when the registry exports
\* functions and the bound is not exceeded.
UsesDetection(fns, it) == fns # {} /\ it <= max_tool_iterations

\* Lines 95-109: the loop head and the choice between detection and the
\* normal streaming path.
SvcLoop ==
    /\ entry = "service"
    /\ svcPc = "loop"
    /\ IF LoopContinues(iteration)
       THEN /\ iteration' = iteration + 1
            /\ has_tool_calls' = FALSE
            /\ svcPc' = IF UsesDetection(functions, iteration + 1)
                        THEN "detect" ELSE "normal"
       ELSE /\ svcPc' = "done"
            /\ UNCHANGED <<iteration, has_tool_calls>>
    /\ UNCHANGED <<functions, messages, accumulated_content,
                   quick_detection, events, detect_calls, stream_requests,
                   llm_calls, tool_batch, chunk_stream, tool_iterations, svcFrame>>

\* What detect_tool_calls can return: nothing, or a content and a list of
\* tool calls; it can also raise.
NoDetection == [kind |-> "none", content |-> "", tool_calls |-> <<>>]

\* No call of a batch has started.
NoBatch == [results |-> <<>>, done |-> 0, started |-> 0]

DetectionOutcomes ==
    [kind : {"result"}, content : {"", "text"},
     tool_calls : {<<>>} \cup {Rep("faq", n) : n \in 1..MaxToolCalls}]
        \cup {NoDetection}
        \cup [kind : {"LLMError", "Exception"}, content : {""}, tool_calls : {<<>>}]

\* Lines 117-136: the detection call and the branch on its result.
SvcDetect ==
    /\ entry = "service"
    /\ svcPc = "detect"
    /\ detect_calls' = detect_calls + 1
    /\ \E d \in DetectionOutcomes :
         /\ llm_calls' = Append(llm_calls,
                LlmCall("detect", d.kind \in {"LLMError", "Exception"}))
         /\ IF d.kind \in {"LLMError", "Exception"}
            THEN /\ events' = Append(events, ErrorChunk(d.kind))
                 /\ svcPc' = "done"
                 /\ UNCHANGED <<quick_detection, tool_batch>>
            ELSE /\ quick_detection' = d
                 /\ tool_batch' = NoBatch
                 /\ UNCHANGED events
                 /\ svcPc' = IF d.kind = "none" THEN "check"
                             ELSE IF d.tool_calls # <<>> THEN "exec"
                             ELSE IF d.content # "" THEN "stream_final"
                             ELSE "check"
    /\ UNCHANGED <<iteration, functions, messages, accumulated_content,
                   has_tool_calls, stream_requests, chunk_stream,
                   tool_iterations, svcFrame>>

\* The results a batch of n tool calls can have, one per call: a result
\* with information, a result whose text carries a not-found indicator, an
\* error text. A batch of several calls finds nothing, or its first call
\* fails and the others find information.
ToolResultSeqs(n) ==
    IF n = 1 THEN {<<"info">>, <<"noinfo">>, <<"error">>}
    ELSE {Rep("noinfo", n), <<"error">> \o Rep("info", n - 1)}

\* The messages a batch appends: the assistant tool request, then one tool
\* message per call.
ExecMessages(calls, results) ==
    <<[role |-> "assistant", content |-> "tool_request"]>>
        \o [i \in 1..Len(calls) |-> [role |-> "tool", content |-> results[i]]]

\* A batch left after its first call.
ExecFinishedEarly(done, n) == done >= 1

\* Lines 128-135: the async for statement ends, and continue is reached,
\* when execute_tool_calls has gone through every call of the batch.
ExecFinished(done, n) == done >= n

\* Lines 125-135: execute the detected tool calls, from one event of
\* execute_tool_calls to the next: the start event of a call is yielded
\* before the call runs, its end or error event after its messages are in
\* the history, and when the executor has gone through the batch the loop
\* continues. The result of a call is drawn when it runs.
SvcExecTools ==
    /\ entry = "service"
    /\ svcPc = "exec"
    /\ LET calls == quick_detection.tool_calls
           b == tool_batch
       IN
       \E results \in ToolResultSeqs(Len(calls)), raises \in BOOLEAN :
         /\ Prefix(b.results, results)
         /\ IF raises
            THEN /\ events' = Append(events, ErrorChunk("Exception"))
                 /\ svcPc' = "done"
                 /\ UNCHANGED <<messages, has_tool_calls, tool_iterations,
                                tool_batch>>
            ELSE IF b.started > b.done
            THEN LET k == b.started
                     msgs == ExecMessages(<<calls[k]>>, <<results[k]>>)
                 IN
                 /\ messages' = messages \o (IF k = 1 THEN msgs ELSE Tail(msgs))
                 /\ events' = Append(events,
                        ToolEvent(IF results[k] = "error" THEN "tool_call_error"
                                  ELSE "tool_call_end", calls[k]))
                 /\ tool_batch' = [b EXCEPT !.results = Append(@, results[k]),
                                            !.done = k]
                 /\ UNCHANGED <<has_tool_calls, tool_iterations, svcPc>>
            ELSE IF ExecFinished(b.done, Len(calls))
            THEN /\ has_tool_calls' = TRUE
                 /\ tool_iterations' = tool_iterations + 1
                 /\ svcPc' = "loop"
                 /\ UNCHANGED <<messages, events, tool_batch>>
            ELSE /\ events' = Append(events,
                        ToolEvent("tool_call_start", calls[b.done + 1]))
                 /\ tool_batch' = [b EXCEPT !.started = b.done + 1]
                 /\ UNCHANGED <<messages, has_tool_calls, tool_iterations, svcPc>>
    /\ UNCHANGED <<iteration, functions, accumulated_content,
                   quick_detection, detect_calls, stream_requests, llm_calls,
                   chunk_stream, svcFrame>>

\* Events that put the chunk of a delta before the events already there.
ChunkEventsReversed(evs, c) == <<Chunk(c)>> \o evs

\* Lines 146-148 and 187-189: the chunk event of a delta follows the events
\* yielded before it.
ChunkEvents(evs, c) == Append(evs, Chunk(c))

\* Lines 136-154: detection returned content and no tool call; stream the
\* final answer with tools disabled, from one yield to the next, and leave
\* the loop when the stream ends. An exception of the stream is answered by
\* the error chunk of lines 275-287.
SvcStreamFinal ==
    /\ entry = "service"
    /\ svcPc = "stream_final"
    /\ \E s \in StreamSteps(chunk_stream, llm_calls) :
         /\ stream_requests' = stream_requests + Len(s.calls) - Len(llm_calls)
         /\ llm_calls' = s.calls
         /\ IF s.kind = "chunk"
            THEN /\ accumulated_content' =
                        accumulated_content \o NonEmptyDeltas(<<s.chunk>>)
                 /\ events' = ChunkEvents(events, s.chunk)
                 /\ chunk_stream' = s.stream
                 /\ UNCHANGED svcPc
            ELSE /\ events' = IF s.kind = "raise"
                              THEN Append(events, ErrorChunk(s.raises))
                              ELSE events
                 /\ chunk_stream' = NoStream
                 /\ svcPc' = "done"
                 /\ UNCHANGED accumulated_content
    /\ UNCHANGED <<iteration, functions, messages, has_tool_calls,
                   quick_detection, detect_calls, tool_batch, tool_iterations,
                   svcFrame>>

\* An end of iteration that gives up at the first iteration without content.
CheckDoneAtOnce(it, msgs, acc) ==
    IF acc # <<>>
    THEN [chunks |-> HintChunks(it, msgs, acc), break |-> TRUE]
    ELSE [chunks |-> <<FallbackChunk(msgs)>>, break |-> TRUE]

\* Lines 241-273: the end of an iteration that neither executed tools nor
\* left the loop.
CheckDone(it, msgs, acc) ==
    IF acc # <<>>
    THEN [chunks |-> HintChunks(it, msgs, acc), break |-> TRUE]
    ELSE IF it >= max_tool_iterations
    THEN [chunks |-> <<FallbackChunk(msgs)>>, break |-> TRUE]
    ELSE [chunks |-> <<>>, break |-> FALSE]

SvcCheckDone ==
    /\ entry = "service"
    /\ svcPc = "check"
    /\ LET c == CheckDone(iteration, messages, accumulated_content) IN
       /\ events' = events \o c.chunks
       /\ svcPc' = IF c.break THEN "done" ELSE "loop"
    /\ UNCHANGED <<iteration, functions, messages, accumulated_content,
                   has_tool_calls, quick_detection, detect_calls,
                   stream_requests, llm_calls, tool_batch, chunk_stream,
                   tool_iterations, svcFrame>>

\* Lines 196-236: what follows the normal stream, given the chunks received.
AfterNormalStream(it, msgs, acc, n) ==
    IF it > 1 /\ n = 0
    THEN [chunks |-> IF acc = <<>> THEN <<FallbackChunk(msgs)>> ELSE <<>>,
          break |-> TRUE]
    ELSE IF n > 0
    THEN [chunks |-> HintChunks(it, msgs, acc), break |-> TRUE]
    ELSE [chunks |-> <<>>, break |-> FALSE]

\* Lines 157-236: the normal streaming path, taken when the registry exports
\* no function, from one yield to the next; the fallback or hint chunk of
\* lines 196-236 follows the end of the stream.
SvcNormalStream ==
    /\ entry = "service"
    /\ svcPc = "normal"
    /\ IF ~(functions = {} \/ iteration > max_tool_iterations)
          \/ ~should_stream_response(iteration, functions, has_tool_calls)
       THEN /\ svcPc' = "check"
            /\ UNCHANGED <<accumulated_content, events, stream_requests,
                           llm_calls, chunk_stream>>
       ELSE \E s \in StreamSteps(chunk_stream, llm_calls) :
              LET a == AfterNormalStream(iteration, messages, accumulated_content,
                                         s.stream.chunk_count)
              IN
              /\ stream_requests' = stream_requests + Len(s.calls) - Len(llm_calls)
              /\ llm_calls' = s.calls
              /\ IF s.kind = "chunk"
                 THEN /\ accumulated_content' =
                             accumulated_content \o NonEmptyDeltas(<<s.chunk>>)
                      /\ events' = ChunkEvents(events, s.chunk)
                      /\ chunk_stream' = s.stream
                      /\ UNCHANGED svcPc
                 ELSE /\ chunk_stream' = NoStream
                      /\ UNCHANGED accumulated_content
                      /\ IF s.kind = "raise"
                         THEN /\ events' = Append(events, ErrorChunk(s.raises))
                              /\ svcPc' = "done"
                         ELSE /\ events' = events \o a.chunks
                              /\ svcPc' = IF a.break THEN "done" ELSE "check"
    /\ UNCHANGED <<iteration, functions, messages, has_tool_calls,
                   quick_detection, detect_calls, tool_batch, tool_iterations,
                   svcFrame>>

\* ---------------------------------------------------- ChatAgent.chat_stream

\* The tools registered with the agent.
RegisteredTools == {"calculator"}

\* Deltas of a model response: a text delta or a tool-call delta carrying an
\* id, a name and a fragment of the arguments text, each possibly absent.
TextDelta == [kind |-> "text", content |-> "txt", id |-> None, name |-> None, args |-> ""]
ToolDelta(id, name, frag) ==
    [kind |-> "tool", content |-> "", id |-> id, name |-> name, args |-> frag]

\* Arguments texts, as the fragments the stream delivers them in: none, an
\* empty object, an object with a key, and a truncated object.
NoArgs == <<>>
EmptyObject == <<"{", "}">>
KeyObject == <<"{", "kv", "}">>
Truncated == <<"{", "kv">>

\* json.loads on the accumulated arguments text.
JsonValid(buf) == buf \in {EmptyObject, KeyObject}
JsonLoads(buf) == IF buf = KeyObject THEN "kv" ELSE "empty"

\* One tool call as the stream delivers it: the id and name first, then the
\* arguments fragment by fragment.
ToolCallDeltas(id, name, text) ==
    <<ToolDelta(id, name, "")>> \o [i \in 1..Len(text) |-> ToolDelta(None, None, text[i])]

\* The responses of the model: the deltas of the stream, and whether the
\* request or the stream raises after them.
ResponseDeltas ==
    {<<>>}
      \cup {Rep(TextDelta, n) : n \in 1..MaxChunks}
      \cup {ToolCallDeltas(id, "calculator", t) : id \in {None, "c1"}, t \in {NoArgs, EmptyObject, KeyObject, Truncated}}
      \cup {ToolCallDeltas("c1", n, t) : n \in {"ghost", None}, t \in {KeyObject, Truncated}}
      \cup {<<TextDelta>> \o ToolCallDeltas("c1", "calculator", KeyObject),
            ToolCallDeltas("c1", "calculator", KeyObject) \o <<TextDelta>>,
            ToolCallDeltas("c1", "calculator", KeyObject)
                \o ToolCallDeltas("c2", "ghost", KeyObject)}

AgentResponses == [deltas : ResponseDeltas, raises : BOOLEAN]

NoToolCall == [id |-> None, name |-> None, args |-> "empty", buf |-> <<>>]

\* Lines 112-157: the loop over the chunks of the stream. st holds
\* tool_call_detected, current_tool_call (its id), tool_call_name,
\* tool_call_args_buffer, accumulated_text and the tuples yielded.
StreamStep(st, d, it) ==
    IF d.kind = "tool"
    THEN [st EXCEPT
            !.detected = TRUE,
            !.id = IF st.started THEN st.id
                   ELSE IF d.id # None THEN d.id ELSE "call_iteration",
            !.started = TRUE,
            !.name = IF d.name # None THEN d.name ELSE st.name,
            !.buf = IF d.args # "" THEN Append(st.buf, d.args) ELSE st.buf]
    ELSE IF d.content # "" /\ ~st.detected
    THEN [st EXCEPT !.text = Append(st.text, d.content),
                    !.out = Append(st.out, [type |-> "text", name |-> d.content])]
    ELSE st

\* Lines 119-157: read the chunks of the stream up to the next yield of a
\* text chunk, or to the end of the stream.
RECURSIVE ReadChunks(_, _, _)
ReadChunks(st, ds, it) ==
    IF ds = <<>> THEN [st |-> st, rest |-> <<>>, yielded |-> FALSE]
    ELSE LET next == StreamStep(st, Head(ds), it) IN
         IF Len(next.out) > Len(st.out)
         THEN [st |-> next, rest |-> Tail(ds), yielded |-> TRUE]
         ELSE ReadChunks(next, Tail(ds), it)

StreamStart ==
    [detected |-> FALSE, started |-> FALSE, id |-> None, name |-> None,
     buf |-> <<>>, text |-> <<>>, out |-> <<>>]

AssistantToolRequest(id, name) ==
    [role |-> "assistant", content |-> "tool_calls", tool_call_id |-> id, name |-> name]
ToolMessage(id, content) ==
    [role |-> "tool", content |-> content, tool_call_id |-> id, name |-> None]

\* Lines 162-241: what follows the stream. The result names the tuples
\* yielded, the messages appended, tool_call_data and whether chat_stream
\* returns.
AfterStream(st) ==
    LET ret(out, msgs, data, returns) ==
            [out |-> out, msgs |-> msgs, data |-> data, returns |-> returns]
        call == [id |-> st.id, name |-> st.name,
                 args |-> IF st.buf = <<>> THEN "empty" ELSE JsonLoads(st.buf),
                 buf |-> st.buf]
    IN
    IF st.detected /\ st.started
    THEN IF st.name = None
         THEN ret(<<[type |-> "tool_error", name |-> "unknown"]>>, <<>>, NoToolCall, TRUE)
         ELSE IF st.buf = <<>> \/ JsonValid(st.buf)
         THEN ret(<<[type |-> "tool_call", name |-> st.name]>>, <<>>, call, FALSE)
         ELSE ret(<<[type |-> "tool_error", name |-> st.name]>>,
                  <<AssistantToolRequest(st.id, st.name),
                    ToolMessage(st.id, "parse_error")>>,
                  NoToolCall, FALSE)
    ELSE IF st.text # <<>> /\ ~st.detected
    THEN ret(<<>>, <<[role |-> "assistant", content |-> "answer",
                      tool_call_id |-> None, name |-> None]>>, NoToolCall, TRUE)
    ELSE ret(<<>>, <<>>, NoToolCall, FALSE)

\* A loop that gives up one iteration before max_iterations.
AgentLoopStopsEarly(it, max) == it < max - 1

\* A loop that runs once more than max_iterations allows.
AgentLoopOneMore(it, max) == it <= max

\* The while condition of ChatAgent.chat_stream.
AgentLoopContinues(it, max) == it < max

\* The SSE event _stream_chat sends for one tuple of the agent; a tuple with
\* neither tool information nor text sends nothing.
SseEvents(tuples) ==
    [i \in 1..Len(tuples) |->
        IF tuples[i].type \in {"text", "error_text", "fallback"}
        THEN [type |-> "chunk", content |-> tuples[i].name]
        ELSE [type |-> tuples[i].type, content |-> tuples[i].name]]

\* What reaches the HTTP caller when the agent yields tuples and, at the
\* end of the generator, the done event.
Deliver(tuples, finished) ==
    IF entry = "server"
    THEN delivered \o SseEvents(tuples)
           \o (IF finished THEN <<[type |-> "done", content |-> ""]>> ELSE <<>>)
    ELSE delivered

\* Where chat_stream is suspended after a run, or "done" when the generator
\* has ended: the tuple it yields there, the messages the run appended, and
\* the locals it keeps.
Suspended(pc, out, msgs, data, st, rest) ==
    [pc |-> pc, out |-> out, msgs |-> msgs, data |-> data, st |-> st, rest |-> rest]

\* Lines 336-343: no tool call to execute. The fallback text is yielded when
\* the iteration count has reached max_iterations; chat_stream returns.
NoToolCallBranch(it, max, msgs) ==
    IF it >= max
    THEN Suspended("last", <<[type |-> "fallback", name |-> "processing_error"]>>,
                   msgs, NoToolCall, StreamStart, <<>>)
    ELSE Suspended("done", <<>>, msgs, NoToolCall, StreamStart, <<>>)

\* Lines 119-249: chat_stream from the chunk it is about to read to its next
\* yield. A text chunk is yielded as it is read (line 157); the answer is
\* appended when the stream has ended (line 237).
StreamOutcome(st, ds, raises, it, max) ==
    LET run == ReadChunks(st, ds, it)
        a == AfterStream(run.st)
    IN
    IF run.yielded
    THEN Suspended("chunk", <<run.st.out[Len(run.st.out)]>>, <<>>, NoToolCall,
                   run.st, run.rest)
    ELSE IF raises
    THEN Suspended("last", <<[type |-> "error_text", name |-> "Error"]>>, <<>>,
                   NoToolCall, StreamStart, <<>>)
    ELSE IF a.out # <<>>
    THEN Suspended(IF a.returns THEN "last"
                   ELSE IF a.data # NoToolCall THEN "tool_call" ELSE "parse_error",
                   a.out, a.msgs, a.data, StreamStart, <<>>)
    ELSE IF a.returns
    THEN Suspended("done", <<>>, a.msgs, NoToolCall, StreamStart, <<>>)
    ELSE NoToolCallBranch(it, max, <<>>)

\* The run of chat_stream that ends suspended as o says, over the history
\* base: the tuple reaches the caller, and the done event follows the end of
\* the generator.
Run(o, base) ==
    /\ agPc' = o.pc
    /\ agEvents' = agEvents \o o.out
    /\ agMessages' = base \o o.msgs
    /\ tool_call_data' = o.data
    /\ stream_locals' = [st |-> o.st, rest |-> o.rest]
    /\ delivered' = Deliver(o.out, o.pc = "done")

\* Lines 78-81: append the user message.
AgStart ==
    /\ entry \in {"agent", "server"}
    /\ agPc = "start"
    /\ agMessages' = Append(agMessages, [role |-> "user", content |-> "question",
                                         tool_call_id |-> None, name |-> None])
    /\ agPc' = "loop"
    /\ UNCHANGED <<regVars, localVars, entry, svcVars, agIteration, max_iterations,
                   tool_call_data, stream, stream_locals, agEvents, model_requests,
                   delivered>>

\* Lines 83-246: the head of the loop, one model request and its stream up
\* to the first yield. chat_stream comes here from line 81, from the yield
\* of a tool_error (lines 261 and 328) and from the yield of a tool_result
\* (line 285), after which it first appends the two messages of the call
\* (lines 288-304). The number of model requests of one run is capped at
\* MaxAgentIterations.
AgModelCall ==
    /\ entry \in {"agent", "server"}
    /\ agPc \in {"loop", "continue", "tool_result"}
    /\ LET base == IF agPc = "tool_result"
                   THEN agMessages \o
                          <<AssistantToolRequest(tool_call_data.id, tool_call_data.name),
                            ToolMessage(tool_call_data.id, "result")>>
                   ELSE agMessages
       IN
       IF ~AgentLoopContinues(agIteration, max_iterations)
       THEN /\ Run(Suspended("done", <<>>, <<>>, NoToolCall, StreamStart, <<>>), base)
            /\ UNCHANGED <<agIteration, stream, model_requests>>
       ELSE /\ model_requests < MaxAgentIterations
            /\ agIteration' = agIteration + 1
            /\ model_requests' = model_requests + 1
            /\ \E r \in AgentResponses :
                 /\ stream' = [deltas |-> r.deltas, raises |-> r.raises,
                               messages |-> base]
                 /\ Run(StreamOutcome(StreamStart, r.deltas, r.raises,
                                      agIteration + 1, max_iterations), base)
    /\ UNCHANGED <<regVars, localVars, entry, svcVars, max_iterations>>

\* Lines 119-246: chat_stream is resumed at the yield of a text chunk and
\* reads on.
AgReadStream ==
    /\ entry \in {"agent", "server"}
    /\ agPc = "chunk"
    /\ Run(StreamOutcome(stream_locals.st, stream_locals.rest, stream.raises,
                         agIteration, max_iterations), agMessages)
    /\ UNCHANGED <<regVars, localVars, entry, svcVars, agIteration, max_iterations,
                   stream, model_requests>>

\* Lines 249-334: chat_stream is resumed at the yield of the tool call and
\* executes the tool. An unregistered tool and a tool that raises leave
\* their messages in the history before the tool_error is yielded; the
\* result of a tool is yielded before its messages are appended.
AgExecuteTool ==
    /\ entry \in {"agent", "server"}
    /\ agPc = "tool_call"
    /\ LET error == <<[type |-> "tool_error", name |-> tool_call_data.name]>> IN
       IF tool_call_data.name \notin RegisteredTools
       THEN Run(Suspended("continue", error,
                          <<ToolMessage(tool_call_data.id, "not_registered")>>,
                          tool_call_data, StreamStart, <<>>), agMessages)
       ELSE \E raises \in BOOLEAN :
              IF raises
              THEN Run(Suspended("continue", error,
                                 <<AssistantToolRequest(tool_call_data.id,
                                                        tool_call_data.name),
                                   ToolMessage(tool_call_data.id, "tool_raised")>>,
                                 tool_call_data, StreamStart, <<>>), agMessages)
              ELSE Run(Suspended("tool_result",
                                 <<[type |-> "tool_result",
                                    name |-> tool_call_data.name]>>,
                                 <<>>, tool_call_data, StreamStart, <<>>), agMessages)
    /\ UNCHANGED <<regVars, localVars, entry, svcVars, agIteration, max_iterations,
                   stream, model_requests>>

\* chat_stream is resumed at a yield that a return follows (lines 170-175,
\* 245-246, 342-343), or at the tool_error of a parse failure (line 225),
\* after which no tool call is left to execute (lines 231, 249 and 336).
AgReturn ==
    /\ entry \in {"agent", "server"}
    /\ agPc \in {"last", "parse_error"}
    /\ Run(IF agPc = "parse_error"
           THEN NoToolCallBranch(agIteration, max_iterations, <<>>)
           ELSE Suspended("done", <<>>, <<>>, NoToolCall, StreamStart, <<>>),
           agMessages)
    /\ UNCHANGED <<regVars, localVars, entry, svcVars, agIteration, max_iterations,
                   stream, model_requests>>

\* Lines 346-349 and main.py lines 100-104: between two requests the caller
\* resets the conversation; the next chat_stream starts on an empty history.
ResetConversation ==
    /\ entry = "agent"
    /\ agPc = "done"
    /\ agMessages' = <<>>
    /\ agPc' = "start"
    /\ agIteration' = 0
    /\ tool_call_data' = NoToolCall
    /\ stream' = [deltas |-> <<>>, raises |-> FALSE, messages |-> <<>>]
    /\ stream_locals' = [st |-> StreamStart, rest |-> <<>>]
    /\ agEvents' = <<>>
    /\ model_requests' = 0
    /\ UNCHANGED <<regVars, localVars, entry, svcVars, max_iterations, delivered>>

\* POST /chat/stream, lines 122-155: a body that is no JSON, a body without
\* a message and a failing get_agent are answered by _error_stream; any
\* other body starts _stream_chat over the agent's generator.
ServerChatStream ==
    /\ entry = "server"
    /\ agPc = "recv"
    /\ \E body \in {"not_json", "no_message", "message"}, agent_fails \in BOOLEAN :
         IF body # "message" \/ agent_fails
         THEN /\ delivered' = <<[type |-> "error", content |-> body]>>
              /\ agPc' = "done"
         ELSE /\ agPc' = "start"
              /\ UNCHANGED delivered
    /\ UNCHANGED <<regVars, localVars, entry, svcVars, agIteration, max_iterations, agMessages,
                   tool_call_data, stream, stream_locals, agEvents, model_requests>>

\* POST /agent/message/stream, generate(): a plain for statement over the
\* asynchronous generator chat_stream returns raises TypeError before the
\* generator runs; the except clause sends one error event.
Generate ==
    /\ entry = "generate"
    /\ svcPc = "start"
    /\ delivered' = <<[type |-> "error", content |-> "TypeError"]>>
    /\ svcPc' = "done"
    /\ UNCHANGED <<regVars, localVars, entry, agVars, iteration, functions, messages,
                   accumulated_content, has_tool_calls, quick_detection, events,
                   detect_calls, stream_requests, llm_calls, tool_batch,
                   chunk_stream, tool_iterations>>

\* The user message of another request served by the same process.
OtherUserMessage ==
    [role |-> "user", content |-> "other_question", tool_call_id |-> None, name |-> None]

\* The points at which the event loop serves other requests: this request
\* has not been received, its generator has not started, is suspended at
\* one of its yields, or has ended.
AgSuspended ==
    agPc \in {"recv", "start", "chunk", "tool_call", "tool_result", "continue",
              "parse_error", "last", "done"}

\* server.py lines 44-79 and agent.py line 79: get_agent hands every request
\* the one global ChatAgent, so the chat_stream of another request appends
\* its user message to the same self.messages, before this request, while
\* it is suspended at one of its yields, or after it.
OtherRequestStart ==
    /\ entry = "server"
    /\ AgSuspended
    /\ \A i \in 1..Len(agMessages) : agMessages[i] # OtherUserMessage
    /\ agMessages' = Append(agMessages, OtherUserMessage)
    /\ UNCHANGED <<regVars, localVars, entry, svcVars, agPc, agIteration, max_iterations,
                   tool_call_data, stream, stream_locals, agEvents, model_requests,
                   delivered>>

\* agent.py line 237: the other request, whose model answered with text,
\* appends its answer.
OtherRequestAnswer ==
    /\ entry = "server"
    /\ AgSuspended
    /\ \E i \in 1..Len(agMessages) : agMessages[i] = OtherUserMessage
    /\ \A i \in 1..Len(agMessages) : agMessages[i].content # "other_answer"
    /\ agMessages' = Append(agMessages, [role |-> "assistant", content |-> "other_answer",
                                         tool_call_id |-> None, name |-> None])
    /\ UNCHANGED <<regVars, localVars, entry, svcVars, agPc, agIteration, max_iterations,
                   tool_call_data, stream, stream_locals, agEvents, model_requests,
                   delivered>>

\* agent.py line 60: the max_iterations of a caller that passes none, as
\* _stream_chat does (server.py line 169).
default_max_iterations == 10

InitAgent ==
    /\ agPc = IF entry = "server" THEN "recv" ELSE "start"
    /\ agIteration = 0
    /\ max_iterations \in IF entry = "agent" THEN 1..MaxAgentIterations
                         ELSE {default_max_iterations}
    /\ agMessages = <<>>
    /\ tool_call_data = NoToolCall
    /\ stream = [deltas |-> <<>>, raises |-> FALSE, messages |-> <<>>]
    /\ stream_locals = [st |-> StreamStart, rest |-> <<>>]
    /\ agEvents = <<>>
    /\ model_requests = 0

NextAgent ==
    \/ ServerChatStream
    \/ AgStart
    \/ AgModelCall
    \/ AgReadStream
    \/ AgExecuteTool
    \/ AgReturn
    \/ ResetConversation
    \/ OtherRequestStart
    \/ OtherRequestAnswer

InitSvc ==
    /\ svcPc = "start"
    /\ iteration = 0
    /\ functions = {}
    /\ messages = <<>>
    /\ accumulated_content = <<>>
    /\ has_tool_calls = FALSE
    /\ quick_detection = NoDetection
    /\ events = <<>>
    /\ detect_calls = 0
    /\ stream_requests = 0
    /\ llm_calls = <<>>
    /\ tool_batch = NoBatch
    /\ chunk_stream = NoStream
    /\ tool_iterations = 0

\* -------------------------------------------------------- MCPToolRegistry

\* The backends a configuration can name, and the tools each one lists.
ServerNames == {"s1", "s2"}

ToolsOf(s) ==
    IF s = "s1" THEN <<"faq", "search">> ELSE <<"", "search", "weather">>

\* server_info["is_local"]: s2 is an external server.
IsLocal(s) == s # "s2"

\* Configurations: the servers of mcp.json, in order, each named once.
Configs ==
    {c \in UNION {[1..n -> ServerNames] : n \in 0..Cardinality(ServerNames)} :
        \A i, j \in DOMAIN c : i # j => c[i] # c[j]}

\* Tool names a caller may ask for.
CallNames == {"search", "nope"}

EmptyMap == [x \in {} |-> x]

\* dict.get(key, default)
Get(map, key, default) == IF key \in DOMAIN map THEN map[key] ELSE default

\* MCPClient objects, [gen, server]: the one created for a server by the
\* n-th run of _create_clients. No client:
NoClient == [gen |-> 0, server |-> ""]

Descriptor(s, n) == [name |-> n, server |-> s]

ToolCallResult(name, success, error, names) ==
    [tool_name |-> name, success |-> success, error |-> error, names |-> names]
NoResult == ToolCallResult("", FALSE, "", {})

TaskIds == 1..MaxTasks

IdleTask ==
    [op |-> "none", pc |-> "idle", i |-> 0, size |-> 0, client |-> NoClient,
     name |-> "", cfg |-> <<>>, raised |-> FALSE, result |-> NoResult,
     outcome |-> None, pre |-> {}, called |-> {}, listed |-> {}, failed |-> {},
     seen |-> {},
     peer_failed |-> FALSE, held |-> "stored"]

\* The registry's own fields.
Reg ==
    [servers |-> servers, tools |-> tools, tool_to_server |-> tool_to_server,
     mcp_clients |-> mcp_clients, client_initialized |-> client_initialized,
     fully_initialized |-> fully_initialized, generation |-> generation,
     clientState |-> clientState]

RegView(r) ==
    [tools |-> r.tools, tool_to_server |-> r.tool_to_server,
     mcp_clients |-> r.mcp_clients, client_initialized |-> r.client_initialized,
     fully_initialized |-> r.fully_initialized, generation |-> r.generation]

\* The coroutine returns (raised = FALSE) or an exception leaves it.
Done(rec, result, raised) ==
    [rec EXCEPT !.pc = "done", !.result = result, !.raised = raised]

\* Lines 64-92: one MCPClient per configured server, none connected, added
\* to the clients the registry holds: the client of a server is stored
\* under its name, and the name of a client already there keeps its place
\* in the dict. A server in skipped is one whose client cannot be made
\* (MCPClient raises, or its configuration is not a dict): the error is
\* logged and the server left out.
create_clients(r, skipped) ==
    LET put(clients, c) ==
            IF \E i \in 1..Len(clients) : clients[i].server = c.server
            THEN [i \in 1..Len(clients) |->
                     IF clients[i].server = c.server THEN c ELSE clients[i]]
            ELSE Append(clients, c)
        RECURSIVE from(_, _)
        from(reg, names) ==
            IF names = <<>> THEN reg
            ELSE LET s == Head(names) IN
                 from(IF s \in skipped THEN reg
                      ELSE [reg EXCEPT
                              !.mcp_clients = put(@, [gen |-> r.generation + 1,
                                                      server |-> s]),
                              !.client_initialized = (s :> FALSE) @@ @,
                              !.clientState[s] = "new"],
                      Tail(names))
    IN [from(r, r.servers) EXCEPT !.generation = r.generation + 1]

\* What the constructor and a reload meet in a step that creates the
\* clients of configuration cfg: the servers whose client cannot be made and,
\* for the initialize_all of the reload, whether the MCP SDK can be
\* imported. The entry of s2 is the one that can be malformed; a
\* configuration that leaves s1 without a client is one that does not name
\* s1. A step that creates no client meets nothing.
Envs(cfg, creates) ==
    IF creates
    THEN [sdk : BOOLEAN, skipped : SUBSET ({cfg[i] : i \in 1..Len(cfg)} \cap {"s2"})]
    ELSE {[sdk |-> TRUE, skipped |-> {}]}

\* A merge in which the server listed last takes the name.
RegisterToolLastWins(r, s, n) ==
    IF n # ""
    THEN [r EXCEPT !.tools = (n :> Descriptor(s, n)) @@ r.tools,
                   !.tool_to_server = (n :> s) @@ r.tool_to_server]
    ELSE r

\* Lines 169-174: merge the tools a server lists; a name already present
\* keeps its descriptor and its server.
RegisterTool(r, s, n) ==
    IF n # "" /\ n \notin DOMAIN r.tools
    THEN [r EXCEPT !.tools = r.tools @@ (n :> Descriptor(s, n)),
                   !.tool_to_server = r.tool_to_server @@ (n :> s)]
    ELSE r

RECURSIVE MergeTools(_, _, _)
MergeTools(r, s, ts) ==
    IF ts = <<>> THEN r
    ELSE MergeTools(RegisterTool(r, s, Head(ts)), s, Tail(ts))

\* Line 151 and line 162: a server the loop of initialize_all suspends on.
NeedsAwait(r, c) ==
    ~IsLocal(c.server) \/ ~Get(r.client_initialized, c.server, FALSE)

RECURSIVE NextIndex(_, _)
NextIndex(r, j) ==
    IF j > Len(r.mcp_clients) THEN j
    ELSE IF NeedsAwait(r, r.mcp_clients[j]) THEN j
    ELSE NextIndex(r, j + 1)

\* Lines 147-187: the loop of initialize_all from entry j on, up to its next
\* await. The dict iterator raises RuntimeError when the dict changed size.
InitAdvance(r, rec, j) ==
    IF Len(r.mcp_clients) # rec.size
    THEN [reg |-> r, rec |-> Done(rec, NoResult, TRUE)]
    ELSE LET k == NextIndex(r, j) IN
         IF k > Len(r.mcp_clients)
         THEN [reg |-> [r EXCEPT !.fully_initialized = TRUE],
               rec |-> Done(rec,
                            IF rec.op = "getdefs"
                            THEN ToolCallResult("", TRUE, "", DOMAIN r.tools)
                            ELSE NoResult,
                            FALSE)]
         ELSE [reg |-> r,
               rec |-> [rec EXCEPT
                          !.i = k, !.client = r.mcp_clients[k],
                          !.called = IF IsLocal(r.mcp_clients[k].server)
                                     THEN @ \cup {r.mcp_clients[k].server} ELSE @,
                          !.pc = IF IsLocal(r.mcp_clients[k].server)
                                 THEN "await_initialize" ELSE "await_avail"]]

\* An initialize_all without the except clauses: every exception leaves it.
InitFailureAborts(r, rec, outcome) ==
    [reg |-> r, rec |-> Done([rec EXCEPT !.outcome = outcome], NoResult, TRUE)]

\* Lines 158-184: the server is skipped as unavailable, or a step of the try
\* block raised. A RuntimeError that says "MCP SDK not available" is raised
\* again; any other exception is logged and the loop goes on.
InitFailure(r, rec, outcome) ==
    IF outcome = "raises_sdk"
    THEN [reg |-> r,
          rec |-> Done([rec EXCEPT !.outcome = outcome,
                                   !.failed = @ \cup {rec.client.server}],
                       NoResult, TRUE)]
    ELSE InitAdvance(r, [rec EXCEPT !.failed = @ \cup {rec.client.server}], rec.i + 1)

\* Lines 134-144 of initialize_all, entered by task rec: RuntimeError leaves
\* it when the MCP SDK cannot be imported; otherwise it awaits
\* server_manager.initialize_servers.
InitEnter(r, rec, sdk) ==
    IF sdk
    THEN [reg |-> r, rec |-> [rec EXCEPT !.pc = "await_servers"]]
    ELSE [reg |-> r, rec |-> Done([rec EXCEPT !.outcome = "raises_sdk"], NoResult, TRUE)]

\* A reload that forgets to clear the tool table and the name map.
ClearAndRebuildKeepsTools(r, rec, env) ==
    LET cleared == [r EXCEPT !.mcp_clients = <<>>, !.client_initialized = EmptyMap,
                             !.fully_initialized = FALSE, !.servers = rec.cfg,
                             !.clientState = [s \in ServerNames |-> "none"]]
    IN InitEnter(create_clients(cleared, env.skipped),
                 [rec EXCEPT !.called = {}, !.listed = {}, !.failed = {}],
                 env.sdk)

\* Lines 290-306 of reload_config: clear the state, which leaves the
\* registry without a client, re-read the configuration, create the clients
\* and enter initialize_all.
ClearAndRebuild(r, rec, env) ==
    LET cleared == [r EXCEPT !.tools = EmptyMap, !.tool_to_server = EmptyMap,
                             !.mcp_clients = <<>>, !.client_initialized = EmptyMap,
                             !.fully_initialized = FALSE, !.servers = rec.cfg,
                             !.clientState = [s \in ServerNames |-> "none"]]
    IN InitEnter(create_clients(cleared, env.skipped),
                 [rec EXCEPT !.called = {}, !.listed = {}, !.failed = {}],
                 env.sdk)

\* A close_all that leaves the per-backend initialized flags set.
CloseAllEndKeepsFlags(r, rec) ==
    [reg |-> [r EXCEPT !.fully_initialized = FALSE],
     rec |-> Done(rec, NoResult, FALSE)]

\* A close_all that also forgets the tools, as reload_config does.
CloseAllEndForgetsTools(r, rec) ==
    [reg |-> [r EXCEPT !.fully_initialized = FALSE, !.client_initialized = EmptyMap,
                       !.tools = EmptyMap, !.tool_to_server = EmptyMap],
     rec |-> Done(rec, NoResult, FALSE)]

\* Lines 321-322 of close_all.
CloseAllEnd(r, rec) ==
    [reg |-> [r EXCEPT !.fully_initialized = FALSE, !.client_initialized = EmptyMap],
     rec |-> Done(rec, NoResult, FALSE)]

\* Lines 283-288 and 314-319: the closing loop from entry j on, up to its
\* next await, and what follows the loop.
CloseAdvance(r, rec, j, env) ==
    IF Len(r.mcp_clients) # rec.size
    THEN [reg |-> r, rec |-> Done(rec, NoResult, TRUE)]
    ELSE IF j > Len(r.mcp_clients)
    THEN IF rec.op = "reload" THEN ClearAndRebuild(r, rec, env) ELSE CloseAllEnd(r, rec)
    ELSE [reg |-> r,
          rec |-> [rec EXCEPT !.i = j, !.client = r.mcp_clients[j], !.pc = "await_close"]]

\* How the backend of one call behaves: it answers, with a result or an
\* error, or it never answers.
BackendBehaviours == {None, "silent"}

\* A lookup that indexes the name map and lets KeyError leave call_tool.
CallLookupRaises(r, rec, name) ==
    IF name \notin DOMAIN r.tool_to_server
    THEN Done(rec, NoResult, TRUE)
    ELSE [rec EXCEPT !.pc = "await_call",
                     !.client = r.mcp_clients[
                         CHOOSE i \in 1..Len(r.mcp_clients) :
                             r.mcp_clients[i].server = r.tool_to_server[name]]]

\* Lines 205-225: resolve the tool to its server and its client.
CallLookup(r, rec, name) ==
    LET server_name == Get(r.tool_to_server, name, None)
        found == {i \in 1..Len(r.mcp_clients) : r.mcp_clients[i].server = server_name}
    IN
    IF server_name = None \/ server_name = ""
    THEN Done(rec, ToolCallResult(name, FALSE, "not_found", DOMAIN r.tools), FALSE)
    ELSE IF found = {}
    THEN Done(rec, ToolCallResult(name, FALSE, "client_not_found", {}), FALSE)
    ELSE [rec EXCEPT !.pc = "await_call",
                     !.client = r.mcp_clients[CHOOSE i \in found : TRUE]]

\* call_tool without the except clause: the backend's exception leaves it.
CallResultPropagates(rec, outcome) ==
    IF outcome = "ok"
    THEN Done([rec EXCEPT !.outcome = outcome],
              ToolCallResult(rec.name, TRUE, "", {}), FALSE)
    ELSE Done([rec EXCEPT !.outcome = outcome], NoResult, TRUE)

\* call_tool over a connection that a failed concurrent call has broken.
CallResultSharedFailure(rec, outcome) ==
    Done([rec EXCEPT !.outcome = outcome],
         IF outcome = "ok" /\ ~rec.peer_failed
         THEN ToolCallResult(rec.name, TRUE, "", {})
         ELSE ToolCallResult(rec.name, FALSE, "exception_text", {}),
         FALSE)

\* Lines 227-244: call_tool after client.call_tool returned or raised.
CallResult(rec, outcome) ==
    Done([rec EXCEPT !.outcome = outcome],
         IF outcome = "ok"
         THEN ToolCallResult(rec.name, TRUE, "", {})
         ELSE ToolCallResult(rec.name, FALSE, "exception_text", {}),
         FALSE)

\* A closing loop without the except clause: the exception of close()
\* leaves the coroutine.
CloseResultPropagates(r, rec, outcome, env) ==
    IF outcome = "ok"
    THEN CloseAdvance([r EXCEPT !.clientState[rec.client.server] = "closed"],
                      rec, rec.i + 1, env)
    ELSE [reg |-> r, rec |-> Done([rec EXCEPT !.outcome = outcome], NoResult, TRUE)]

\* Lines 285-288 and 316-319: client.close() returned or raised; the
\* exception is logged and the loop goes on.
CloseResult(r, rec, outcome, env) ==
    IF outcome = "ok"
    THEN CloseAdvance([r EXCEPT !.clientState[rec.client.server] = "closed"],
                      rec, rec.i + 1, env)
    ELSE CloseAdvance(r, [rec EXCEPT !.outcome = outcome], rec.i + 1, env)

\* What other coroutines learn from a step: the tool names a lookup saw,
\* whether a backend call failed, and the client object whose close()
\* returned.
Quiet == [obs |-> {}, failed |-> FALSE, closed |-> NoClient]
Lookup(r) == [Quiet EXCEPT !.obs = {DOMAIN r.tool_to_server}]

Free(t) == tasks[t].pc = "idle"

\* A caller starts an operation in the first free task. Serial callers
\* await each operation before the next. In mode "calls" the call_tool and
\* list_tools of several callers overlap each other and nothing else, as in
\* test_mcp_concurrency.py. In mode "readers" a call_tool or list_tools, in
\* task 2, overlaps one initialize_all, get_tool_function_definitions,
\* reload_config or close_all, which runs in task 1. In mode "inits" the
\* initialize_all and
\* get_tool_function_definitions of several callers overlap each other, as
\* the chat requests that arrive before startup has finished do. In mode
\* "writers" a reload_config, in task 2, overlaps an initialize_all, in
\* task 1, as a reload from the admin page during startup does.
CanStart(t, op) ==
    /\ Free(t)
    /\ \A u \in TaskIds : u < t => ~Free(u)
    /\ mode = "serial" => \A u \in TaskIds : Free(u)
    /\ mode = "calls" =>
           IF op \in {"call", "list"}
           THEN \A u \in TaskIds : tasks[u].op \in {"none", "call"}
           ELSE \A u \in TaskIds : Free(u)
    /\ mode = "readers" => (t = 1) # (op \in {"call", "list"})
    /\ mode = "inits" => op \in {"init", "getdefs"}
    /\ mode = "writers" => op \in (IF t = 1 THEN {"init"} ELSE {"reload"})

Fresh(op) == [IdleTask EXCEPT !.op = op, !.pc = "start"]

\* What a coroutine hands to its caller: its result or its exception, with
\* the arguments of the call. The configuration of a reload and the backends
\* a pass called, listed and found failing are kept in the serial runs, as
\* the registry of the history is.
Returned(rec) ==
    LET serial == mode = "serial" IN
    [IdleTask EXCEPT !.op = rec.op, !.pc = "done", !.name = rec.name,
                     !.cfg = IF serial THEN rec.cfg ELSE <<>>,
                     !.raised = rec.raised, !.result = rec.result,
                     !.outcome = rec.outcome, !.pre = rec.pre,
                     !.called = IF serial THEN rec.called ELSE {},
                     !.listed = IF serial THEN rec.listed ELSE {},
                     !.failed = IF serial THEN rec.failed ELSE {},
                     !.seen = rec.seen, !.peer_failed = rec.peer_failed]

\* Line 164: the step of task t ends at the await of client.initialize(),
\* which it has just called on the client of x.rec. The count of a server
\* starts again when _create_clients replaces the clients (line 303) and
\* when close_all has cleared the flags (line 322). The calls are counted
\* in the runs of mode "inits".
InitializeCalls(t, x) ==
    IF mode # "inits" THEN initialize_calls
    ELSE IF x.reg.generation # generation
       \/ (x.rec.op = "close" /\ x.rec.pc = "done" /\ ~x.rec.raised)
    THEN [s \in ServerNames |-> 0]
    ELSE IF x.rec.pc = "await_initialize"
            /\ (tasks[t].pc # "await_initialize" \/ tasks[t].i # x.rec.i)
    THEN [initialize_calls EXCEPT ![x.rec.client.server] =
             IF @ < MaxInitializeCalls THEN @ + 1 ELSE @]
    ELSE initialize_calls

\* The client object c is the one registry r holds for its server.
Stored(r, c) == \E i \in 1..Len(r.mcp_clients) : r.mcp_clients[i] = c

\* The step of task t ends in registry x.reg and task state x.rec; a
\* coroutine that ends frees its task. A pending call keeps the client
\* object it took from _mcp_clients: when a reload takes the object out of
\* the registry, the call holds it in the state the reload left it in.
CommitReg(t, x, note) ==
    /\ servers' = x.reg.servers
    /\ tools' = x.reg.tools
    /\ tool_to_server' = x.reg.tool_to_server
    /\ mcp_clients' = x.reg.mcp_clients
    /\ client_initialized' = x.reg.client_initialized
    /\ fully_initialized' = x.reg.fully_initialized
    /\ generation' = x.reg.generation
    /\ clientState' = x.reg.clientState
    /\ tasks' = [u \in TaskIds |->
                   IF u = t
                   THEN IF x.rec.pc = "done" THEN IdleTask ELSE x.rec
                   ELSE IF tasks[u].op = "reload"
                   THEN [tasks[u] EXCEPT !.seen = @ \cup note.obs]
                   ELSE IF tasks[u].pc = "await_call"
                   THEN [tasks[u] EXCEPT
                           !.peer_failed = @ \/ note.failed,
                           !.held = IF @ = "stored" /\ ~Stored(x.reg, tasks[u].client)
                                    THEN IF note.closed = tasks[u].client THEN "closed"
                                         ELSE clientState[tasks[u].client.server]
                                    ELSE @]
                   ELSE tasks[u]]
    /\ hist' = IF x.rec.pc = "done"
               THEN [last |-> Returned(x.rec),
                     names |-> DOMAIN x.reg.tools,
                     closes |-> IF x.rec.op \in {"call", "list"} THEN hist.closes
                                ELSE IF x.rec.op # "close" THEN 0
                                ELSE IF hist.closes < 2 THEN hist.closes + 1 ELSE 2,
                     reg |-> IF mode = "serial" THEN RegView(x.reg) ELSE hist.reg,
                     exposed |-> IF mode # "serial" THEN hist.exposed
                                 ELSE IF x.rec.op = "reload" THEN x.rec.listed
                                 ELSE IF x.rec.op \in {"init", "getdefs"}
                                 THEN hist.exposed \cup x.rec.listed
                                 ELSE hist.exposed]
               ELSE hist
    /\ initialize_calls' = InitializeCalls(t, x)
    /\ UNCHANGED mode

\* A step of the registry alone.
Commit(t, x, note) ==
    /\ CommitReg(t, x, note)
    /\ UNCHANGED <<entry, svcVars, agVars, delivered, localVars>>

\* Lines 120-144: initialize_all is called and runs to its first await, or
\* raises RuntimeError when the MCP SDK cannot be imported.
StartInit(t) ==
    /\ CanStart(t, "init")
    /\ \E sdk \in BOOLEAN :
         Commit(t, InitEnter(Reg, [Fresh("init") EXCEPT !.pre = DOMAIN tools], sdk),
                Quiet)

\* Lines 246-268: get_tool_function_definitions up to its first await or
\* its end: it returns the names of the tools, after initialize_all when
\* the registry is not fully initialized.
get_tool_function_definitions(sdk) ==
    LET rec == [Fresh("getdefs") EXCEPT !.pre = DOMAIN tools] IN
    IF fully_initialized
    THEN [reg |-> Reg, rec |-> Done(rec, ToolCallResult("", TRUE, "", DOMAIN tools), FALSE)]
    ELSE InitEnter(Reg, rec, sdk)

StartGetDefs(t) ==
    /\ CanStart(t, "getdefs")
    /\ \E sdk \in BOOLEAN :
         Commit(t, get_tool_function_definitions(sdk), Lookup(Reg))

\* Lines 94-109: list_tools.
ListTools(t) ==
    /\ CanStart(t, "list")
    /\ Commit(t,
              [reg |-> Reg,
               rec |-> Done(Fresh("list"),
                            ToolCallResult("", TRUE, "", DOMAIN tools), FALSE)],
              [Quiet EXCEPT !.obs = {DOMAIN tools}])

\* A call_tool that connects its backend on first use and marks it
\* initialized.
CallEffectConnects(r, rec) ==
    IF rec.pc = "await_call"
    THEN [r EXCEPT !.client_initialized =
            [s \in DOMAIN r.client_initialized \cup {rec.client.server} |->
                IF s = rec.client.server THEN TRUE ELSE r.client_initialized[s]]]
    ELSE r

\* Lines 189-244: the registry after a step of call_tool, which assigns to
\* no attribute of the registry and calls nothing but client.call_tool.
CallEffect(r, rec) == r

\* Lines 202-229: call_tool up to the await of client.call_tool.
StartCall(t) ==
    /\ CanStart(t, "call")
    /\ \E name \in CallNames, backend \in BackendBehaviours :
         LET rec == CallLookup(Reg, [Fresh("call") EXCEPT !.name = name], name) IN
         Commit(t, [reg |-> CallEffect(Reg, rec),
                    rec |-> IF rec.pc = "await_call"
                            THEN [rec EXCEPT !.outcome = backend] ELSE rec],
                Lookup(Reg))

\* What client.call_tool can do: a connection in state closed answers no
\* call; any other returns a result or raises.
ClientAnswers(state) == IF state = "closed" THEN {"raises"} ELSE {"ok", "raises"}

\* Lines 229-244: client.call_tool returns or raises, when the backend
\* answers; nothing in call_tool ends the await otherwise. The client is
\* the object the call took from _mcp_clients at line 216, whether or not
\* the registry still holds it.
CallReturn(t) ==
    /\ tasks[t].pc = "await_call"
    /\ tasks[t].outcome # "silent"
    /\ \E outcome \in ClientAnswers(IF tasks[t].held = "stored"
                                    THEN clientState[tasks[t].client.server]
                                    ELSE tasks[t].held) :
         Commit(t, [reg |-> CallEffect(Reg, tasks[t]),
                    rec |-> CallResult(tasks[t], outcome)],
                [Quiet EXCEPT !.failed = outcome = "raises"])

\* Lines 144-147: server_manager.initialize_servers returns and the loop
\* over the clients begins, or it raises and its exception, which no except
\* clause encloses, leaves initialize_all.
InitServers(t) ==
    /\ tasks[t].pc = "await_servers"
    /\ \E outcome \in {"ok", "raises"} :
         Commit(t,
                IF outcome = "ok"
                THEN InitAdvance(Reg, [tasks[t] EXCEPT !.size = Len(mcp_clients)], 1)
                ELSE [reg |-> Reg,
                      rec |-> Done([tasks[t] EXCEPT !.outcome = "raises_servers"],
                                   NoResult, TRUE)],
                Quiet)

\* Lines 153-162: ensure_external_server_installed answers.
InitAvail(t) ==
    /\ tasks[t].pc = "await_avail"
    /\ \E outcome \in {"available", "unavailable", "raises", "raises_sdk"} :
         Commit(t,
                IF outcome = "available"
                THEN IF ~Get(client_initialized, tasks[t].client.server, FALSE)
                     THEN [reg |-> Reg,
                           rec |-> [tasks[t] EXCEPT
                                      !.called = @ \cup {tasks[t].client.server},
                                      !.pc = "await_initialize"]]
                     ELSE InitAdvance(Reg, tasks[t], tasks[t].i + 1)
                ELSE InitFailure(Reg, tasks[t], outcome),
                Quiet)

\* Lines 164-168: client.initialize() returns or raises. The client is the
\* one the loop took from _mcp_clients: when a reload has replaced the
\* clients since, the flag of the server is set and the client stored
\* under its name is another one, which stays as it is.
InitConnect(t) ==
    /\ tasks[t].pc = "await_initialize"
    /\ \E outcome \in {"ok", "raises", "raises_sdk"} :
         LET c == tasks[t].client IN
         Commit(t,
                IF outcome = "ok"
                THEN [reg |-> [Reg EXCEPT
                                 !.client_initialized =
                                     (c.server :> TRUE) @@ client_initialized,
                                 !.clientState[c.server] =
                                     IF \E i \in 1..Len(mcp_clients) : mcp_clients[i] = c
                                     THEN "ready" ELSE @],
                      rec |-> [tasks[t] EXCEPT !.pc = "await_list"]]
                ELSE InitFailure(Reg, tasks[t], outcome),
                Quiet)

\* Lines 168-184: client.list_tools() returns or raises.
InitList(t) ==
    /\ tasks[t].pc = "await_list"
    /\ \E outcome \in {"ok", "raises", "raises_sdk"} :
         LET s == tasks[t].client.server IN
         Commit(t,
                IF outcome = "ok"
                THEN InitAdvance(MergeTools(Reg, s, ToolsOf(s)),
                                 [tasks[t] EXCEPT !.listed = @ \cup {s}],
                                 tasks[t].i + 1)
                ELSE InitFailure(Reg, tasks[t], outcome),
                Quiet)

\* Lines 280-286: reload_config starts closing the clients.
StartReload(t) ==
    /\ CanStart(t, "reload")
    /\ generation < MaxReloads
    /\ \E cfg \in Configs :
         LET rec == [Fresh("reload") EXCEPT !.cfg = cfg, !.size = Len(mcp_clients),
                                            !.pre = DOMAIN tools]
         IN \E env \in Envs(cfg, mcp_clients = <<>>) :
                Commit(t, CloseAdvance(Reg, rec, 1, env), Quiet)

\* Lines 310-317: close_all starts closing the clients.
StartClose(t) ==
    /\ CanStart(t, "close")
    /\ Commit(t, CloseAdvance(Reg, [Fresh("close") EXCEPT !.size = Len(mcp_clients)], 1,
                              CHOOSE env \in Envs(<<>>, FALSE) : TRUE),
              Quiet)

\* Lines 285-288 and 316-319: client.close() returns or raises; the
\* exception is logged.
CloseStep(t) ==
    /\ tasks[t].pc = "await_close"
    /\ \E outcome \in {"ok", "raises"} : \E env \in Envs(tasks[t].cfg,
                       tasks[t].op = "reload" /\ tasks[t].i >= Len(mcp_clients)) :
         Commit(t, CloseResult(Reg, tasks[t], outcome, env),
                [Quiet EXCEPT !.closed = IF outcome = "ok" THEN tasks[t].client
                                         ELSE NoClient])

\* ------------------------------- ChatService.chat_stream: lines 61-93

\* Lines 61-84: prepare the messages and build the system prompt; an
\* exception of build_agent_system_prompt other than the two it catches is
\* answered by the chunk of lines 300-308. Greet an empty conversation;
\* otherwise call get_tool_function_definitions, which returns or is
\* suspended in initialize_all.
SvcStart ==
    /\ entry = "service"
    /\ svcPc = "start"
    /\ \E request \in ChatRequests, prompt_raises \in BOOLEAN :
         /\ messages' = prepare_messages(request)
         /\ IF prompt_raises
            THEN /\ events' = Append(events, Chunk(OuterErrorText))
                 /\ svcPc' = "done"
                 /\ UNCHANGED regVars
            ELSE IF messages' = <<>>
            THEN /\ events' = Append(events, Chunk(Greeting))
                 /\ svcPc' = "done"
                 /\ UNCHANGED regVars
            ELSE /\ svcPc' = "functions"
                 /\ UNCHANGED events
                 /\ \E t \in TaskIds, sdk \in BOOLEAN :
                      /\ CanStart(t, "getdefs")
                      /\ CommitReg(t, get_tool_function_definitions(sdk), Lookup(Reg))
    /\ UNCHANGED <<iteration, functions, accumulated_content, has_tool_calls,
                   quick_detection, detect_calls, stream_requests, llm_calls,
                   tool_batch, chunk_stream, tool_iterations, entry, agVars,
                   delivered, localVars>>

\* Lines 84-93: get_tool_function_definitions has returned the names of the
\* registry's tools, or its exception is answered by the chunk of lines
\* 300-308.
SvcFunctions ==
    /\ entry = "service"
    /\ svcPc = "functions"
    /\ \A t \in TaskIds : Free(t)
    /\ IF hist.last.raised
       THEN /\ events' = Append(events, Chunk(OuterErrorText))
            /\ svcPc' = "done"
            /\ UNCHANGED functions
       ELSE /\ functions' = hist.last.result.names
            /\ svcPc' = "loop"
            /\ UNCHANGED events
    /\ UNCHANGED <<iteration, messages, accumulated_content, has_tool_calls,
                   quick_detection, detect_calls, stream_requests, llm_calls,
                   tool_batch, chunk_stream, tool_iterations, svcFrame>>

NextSvc ==
    \/ Generate
    \/ SvcStart
    \/ \E t \in TaskIds : InitServers(t) \/ InitConnect(t) \/ InitList(t)
    \/ SvcFunctions
    \/ SvcLoop
    \/ SvcDetect
    \/ SvcExecTools
    \/ SvcStreamFinal
    \/ SvcNormalStream
    \/ SvcCheckDone

\* MCPToolRegistry.__init__ over a configuration.
InitReg ==
    /\ \E cfg \in Configs : \E env \in {e \in Envs(cfg, TRUE) : e.sdk} :
         LET r == create_clients(
                    [servers |-> cfg, tools |-> EmptyMap, tool_to_server |-> EmptyMap,
                     mcp_clients |-> <<>>, client_initialized |-> EmptyMap,
                     fully_initialized |-> FALSE, generation |-> -1,
                     clientState |-> [s \in ServerNames |-> "none"]],
                    env.skipped)
         IN /\ servers = r.servers
            /\ tools = r.tools
            /\ tool_to_server = r.tool_to_server
            /\ mcp_clients = r.mcp_clients
            /\ client_initialized = r.client_initialized
            /\ fully_initialized = r.fully_initialized
            /\ generation = r.generation
            /\ clientState = r.clientState
    /\ tasks = [t \in TaskIds |-> IdleTask]
    /\ hist = [last |-> IdleTask, names |-> {}, closes |-> 0,
               reg |-> RegView(Reg), exposed |-> {}]
    /\ initialize_calls = [s \in ServerNames |-> 0]

NextReg ==
    \E t \in TaskIds :
        \/ StartInit(t)
        \/ StartGetDefs(t)
        \/ ListTools(t)
        \/ StartCall(t)
        \/ CallReturn(t)
        \/ InitServers(t)
        \/ InitAvail(t)
        \/ InitConnect(t)
        \/ InitList(t)
        \/ StartReload(t)
        \/ StartClose(t)
        \/ CloseStep(t)

NextWriters ==
    \E t \in TaskIds :
        \/ StartInit(t)
        \/ InitServers(t)
        \/ InitAvail(t)
        \/ InitConnect(t)
        \/ InitList(t)
        \/ StartReload(t)
        \/ CloseStep(t)

\* ------------------------------------ app/mcp/registry.py: MCPToolRegistry

\* The entries get_mcp_tools can return: a name and a type each.
ToolConfigs == [name : {"faq", "kb"}, type : {"faq", "retriever", "other"}]

\* The MCPToolConfig object of entry i and the tool object built for it.
ConfigObject(cfg, i) == [name |-> cfg.name, type |-> cfg.type, entry |-> i]
NoImplementation == [type |-> None, entry |-> 0]

\* Lines 50-62: a FAQTool or a RetrieverTool, None for any other type.
load_tool_implementation(cfg, i) ==
    IF cfg.type \in {"faq", "retriever"}
    THEN [type |-> cfg.type, entry |-> i]
    ELSE NoImplementation

\* Lines 43-48: the loop of _load_tools from entry i on.
RECURSIVE load_tools(_, _, _)
load_tools(reg, cfgs, i) ==
    IF i > Len(cfgs) THEN reg
    ELSE LET c == cfgs[i]
             implementation == load_tool_implementation(c, i)
         IN load_tools(
               [tools |-> (c.name :> ConfigObject(c, i)) @@ reg.tools,
                implementations |->
                    IF implementation # NoImplementation
                    THEN (c.name :> implementation) @@ reg.implementations
                    ELSE reg.implementations],
               cfgs, i + 1)

\* Lines 64-74: get_tool and list_tools.
get_tool(name) == Get(tool_implementations, name, NoImplementation)
list_tools == {cfg_tools[n] : n \in DOMAIN cfg_tools}

\* Lines 33-37: MCPToolRegistry.__init__.
LoadTools ==
    /\ ~loaded
    /\ LET reg == load_tools([tools |-> EmptyMap, implementations |-> EmptyMap],
                             tool_configs, 1)
       IN /\ cfg_tools' = reg.tools
          /\ tool_implementations' = reg.implementations
    /\ loaded' = TRUE
    /\ UNCHANGED <<tool_configs, arguments, execution_result, tool_result,
                   formatted, entry, svcVars,
                   agVars, delivered, regVars>>

\* ------------------------------------------------------- CalculatorTool

RECURSIVE GCD(_, _)
GCD(x, y) == IF y = 0 THEN x ELSE GCD(y, x % y)

\* The value of a / b for integers a and b # 0, as the fraction in lowest
\* terms with a positive denominator.
TrueDivide(a, b) ==
    LET sign == IF b < 0 THEN -1 ELSE 1
        g == GCD(IF a < 0 THEN -a ELSE a, sign * b)
    IN [num |-> sign * (a \div g), den |-> (sign * b) \div g]

Numbers == (-MaxNumber..MaxNumber) \cup {5, 10}
NoArguments == [operation |-> None, a |-> 0, b |-> 0, called |-> FALSE]

ToolExecutionResult(success, data, error) ==
    [success |-> success, data |-> data, error |-> error]
\* Lines 66-69: the data of a successful call.
CalculatorData(result, operation, a, b) ==
    [result |-> result, operation |-> operation, a |-> a, b |-> b]

\* execute with subtract taking its operands the other way round.
CalculatorExecuteSwapped(operation, a, b) ==
    IF operation = "add" THEN ToolExecutionResult(TRUE, CalculatorData(a + b, operation, a, b), None)
    ELSE IF operation = "subtract" THEN ToolExecutionResult(TRUE, CalculatorData(b - a, operation, a, b), None)
    ELSE IF operation = "multiply" THEN ToolExecutionResult(TRUE, CalculatorData(a * b, operation, a, b), None)
    ELSE IF operation = "divide"
    THEN IF b = 0 THEN ToolExecutionResult(FALSE, None, "Division by zero")
         ELSE ToolExecutionResult(TRUE, CalculatorData(TrueDivide(a, b), operation, a, b), None)
    ELSE ToolExecutionResult(FALSE, None, "Unknown operation")

\* Lines 39-69: CalculatorTool.execute.
CalculatorExecute(operation, a, b) ==
    IF operation = "add" THEN ToolExecutionResult(TRUE, CalculatorData(a + b, operation, a, b), None)
    ELSE IF operation = "subtract" THEN ToolExecutionResult(TRUE, CalculatorData(a - b, operation, a, b), None)
    ELSE IF operation = "multiply" THEN ToolExecutionResult(TRUE, CalculatorData(a * b, operation, a, b), None)
    ELSE IF operation = "divide"
    THEN IF b = 0 THEN ToolExecutionResult(FALSE, None, "Division by zero")
         ELSE ToolExecutionResult(TRUE, CalculatorData(TrueDivide(a, b), operation, a, b), None)
    ELSE ToolExecutionResult(FALSE, None, "Unknown operation")

\* One call of execute. The tool keeps no state between calls, so a behaviour
\* makes one call and every call is the first call of some behaviour.
Execute ==
    /\ ~arguments.called
    /\ \E operation \in {"add", "subtract", "multiply", "divide", "power", None}, a \in Numbers, b \in Numbers :
         /\ arguments' = [operation |-> operation, a |-> a, b |-> b, called |-> TRUE]
         /\ execution_result' = CalculatorExecute(operation, a, b)
    /\ UNCHANGED <<tool_configs, loaded, cfg_tools, tool_implementations,
                   tool_result, formatted, entry, svcVars, agVars, delivered,
                   regVars>>

\* Neither the configuration-driven registry nor the calculator is in use.
NoLocalTools ==
    /\ tool_configs = <<>>
    /\ loaded = FALSE
    /\ cfg_tools = EmptyMap
    /\ tool_implementations = EmptyMap
    /\ arguments = NoArguments
    /\ execution_result = ToolExecutionResult(FALSE, None, None)

\* Nothing has been given to format_tool_result_for_llm.
NoFormatting ==
    /\ tool_result = [type |-> "other", keys |-> {}, text |-> Fact, answers |-> <<>>,
                      count |-> 0, answer |-> AnswerNone, found |-> FALSE,
                      results |-> <<>>, message |-> <<"no match">>]
    /\ formatted = Formatted(<<>>, "none")

\* One call of format_tool_result_for_llm.
FormatToolResult ==
    /\ formatted.shape = "none"
    /\ formatted' = format_tool_result_for_llm(tool_result)
    /\ UNCHANGED <<tool_result, tool_configs, loaded, cfg_tools,
                   tool_implementations, arguments, execution_result, entry,
                   svcVars, agVars, delivered, regVars>>

\* No request is being served.
NoRequest ==
    /\ entry = "none"
    /\ InitSvc
    /\ InitAgent
    /\ delivered = <<>>

\* The registry with callers that await each operation before the next.
InitRegSeq == NoRequest /\ NoLocalTools /\ NoFormatting /\ InitReg /\ mode = "serial"

SpecRegSeq == InitRegSeq /\ [][NextReg]_vars

\* The registry with call_tool and list_tools callers that run concurrently
\* with each other.
InitRegCalls == NoRequest /\ NoLocalTools /\ NoFormatting /\ InitReg /\ mode = "calls"

SpecRegCalls == InitRegCalls /\ [][NextReg]_vars

\* The registry with call_tool and list_tools callers that run concurrently
\* with each other and with one other operation.
InitRegReaders == NoRequest /\ NoLocalTools /\ NoFormatting /\ InitReg /\ mode = "readers"

SpecReg == InitRegReaders /\ [][NextReg]_vars

\* The registry with a reload_config caller that runs concurrently with an
\* initialize_all caller.
InitRegWriters == NoRequest /\ NoLocalTools /\ NoFormatting /\ InitReg /\ mode = "writers"

SpecRegWriters == InitRegWriters /\ [][NextWriters]_vars

\* The registry from its construction to the first reload_config or
\* close_all, with initialize_all and get_tool_function_definitions callers
\* that run concurrently with each other.
InitRegInits == NoRequest /\ NoLocalTools /\ NoFormatting /\ InitReg /\ mode = "inits"

NextInits ==
    \E t \in TaskIds :
        \/ StartInit(t)
        \/ StartGetDefs(t)
        \/ InitServers(t)
        \/ InitAvail(t)
        \/ InitConnect(t)
        \/ InitList(t)

SpecRegInits == InitRegInits /\ [][NextInits]_vars

\* The registry of an empty configuration, which no caller uses.
RegQuiet ==
    /\ servers = <<>>
    /\ tools = EmptyMap
    /\ tool_to_server = EmptyMap
    /\ mcp_clients = <<>>
    /\ client_initialized = EmptyMap
    /\ fully_initialized = FALSE
    /\ generation = 0
    /\ clientState = [s \in ServerNames |-> "none"]
    /\ tasks = [t \in TaskIds |-> IdleTask]
    /\ mode = "serial"
    /\ hist = [last |-> IdleTask, names |-> {}, closes |-> 0,
               reg |-> RegView(Reg), exposed |-> {}]
    /\ initialize_calls = [s \in ServerNames |-> 0]

InitOrch ==
    /\ entry \in {"service", "generate", "agent", "server"}
    /\ InitSvc
    /\ InitAgent
    /\ delivered = <<>>
    /\ IF entry = "service"
       THEN InitReg /\ servers \in {<<>>, <<"s1">>} /\ mode = "serial"
       ELSE RegQuiet
    /\ NoLocalTools
    /\ NoFormatting

\* The configuration-driven registry before its constructor runs, for every
\* list of entries, and the calculator before its first call.
InitLocal ==
    /\ NoRequest
    /\ RegQuiet
    /\ tool_configs \in UNION {[1..n -> ToolConfigs] : n \in 0..MaxConfigs}
    /\ loaded = FALSE
    /\ cfg_tools = EmptyMap
    /\ tool_implementations = EmptyMap
    /\ arguments = NoArguments
    /\ execution_result = ToolExecutionResult(FALSE, None, None)
    /\ NoFormatting

NextLocal == LoadTools \/ Execute

SpecLocal == InitLocal /\ [][NextLocal]_vars

\* format_tool_result_for_llm before its call, for every tool result.
InitFormat ==
    /\ NoRequest
    /\ RegQuiet
    /\ NoLocalTools
    /\ tool_result \in ToolResults
    /\ formatted = Formatted(<<>>, "none")

SpecFormat == InitFormat /\ [][FormatToolResult]_vars

NextOrch == NextSvc \/ NextAgent

SpecOrch == InitOrch /\ [][NextOrch]_vars

\* The request has been served to its end.
RequestFinished ==
    \/ entry \in {"service", "generate"} /\ svcPc = "done"
    \/ entry \in {"agent", "server"} /\ agPc = "done"


\* ------------------------------------------------------------ properties

\* C1: a request makes at most max_tool_iterations detection calls in
\* ChatService.chat_stream and at most max_iterations model requests in
\* ChatAgent.chat_stream, whatever the completion service answers.
BoundedModelCalls ==
    /\ detect_calls <= max_tool_iterations
    /\ model_requests <= max_iterations

\* A finished agent request in which every model request asked for a tool
\* and the bound stopped the loop.
ToolCallOnEveryRequest ==
    /\ agPc = "done"
    /\ max_iterations = MaxAgentIterations
    /\ model_requests = max_iterations
    /\ Len(SelectSeq(agEvents, LAMBDA e : e.type = "tool_result")) = max_iterations

\* C2: the event stream a finished HTTP request has delivered ends with
\* the done event, and what chat_stream itself yields is finite.
AlwaysReachesDone ==
    (RequestFinished /\ entry \in {"generate", "server"}) =>
        /\ delivered # <<>>
        /\ delivered[Len(delivered)].type = "done"

\* C3: when four detections in a row returned tool calls and each batch was
\* executed, chat_stream ends with a fallback chunk.
FallbackAfterFourToolIterations ==
    (entry = "service" /\ svcPc = "done"
        /\ tool_iterations = max_tool_iterations) =>
        /\ events # <<>>
        /\ events[Len(events)] \in {Chunk(FallbackNoInfo), Chunk(FallbackGeneric)}

\* The names a server's tool list registers.
ExposedNames(s) == {ToolsOf(s)[i] : i \in 1..Len(ToolsOf(s))} \ {""}

\* The first server of the client table, among those listed, that exposes n.
FirstExposing(clients, listed, n) ==
    LET idx == {i \in 1..Len(clients) :
                   clients[i].server \in listed /\ n \in ExposedNames(clients[i].server)}
    IN clients[CHOOSE i \in idx : \A j \in idx : i <= j].server

\* The steps of initialize_all after its first await.
InitPcs == {"await_servers", "await_avail", "await_initialize", "await_list"}

\* C4, as stated: after an initialize_all that returned, every name that
\* several of the backends that listed their tools expose has exactly one
\* descriptor, and the descriptor and the route of call_tool are those of
\* the first of these backends in configuration order.
FirstExposingBackendOwns ==
    LET r == hist.last IN
    (r.op \in {"init", "getdefs", "reload"} /\ ~r.raised) =>
        \A n \in UNION {ExposedNames(s) : s \in hist.exposed} :
            Cardinality({s \in hist.exposed : n \in ExposedNames(s)}) > 1 =>
                LET first == FirstExposing(hist.reg.mcp_clients, hist.exposed, n) IN
                /\ n \in DOMAIN hist.reg.tools
                /\ Cardinality({m \in DOMAIN hist.reg.tools :
                                   hist.reg.tools[m].name = n}) = 1
                /\ hist.reg.tools[n] = Descriptor(first, n)
                /\ hist.reg.tool_to_server[n] = first
                /\ CallLookup(hist.reg, Fresh("call"), n).client.server = first

\* C4, amended: after an initialization pass over an empty tool table (the
\* first pass after construction, or the pass of a reload), every name the
\* listed backends exposed has exactly one descriptor, and the descriptor
\* and the route of call_tool are those of the first backend in
\* configuration order that exposed the name. After any pass, every name a
\* backend has listed has exactly one descriptor and is routed to the
\* backend of that descriptor, which is one that listed it; and no step of
\* a pass gives a registered name another descriptor or another route, so
\* a backend configured earlier that lists the name in a later pass does
\* not take it over.
FirstBackendWins ==
    /\ [](LET r == hist.last IN
          (r.op \in {"init", "getdefs", "reload"} /\ ~r.raised) =>
              /\ (r.op = "reload" \/ r.pre = {}) =>
                     \A n \in UNION {ExposedNames(s) : s \in r.listed} :
                         LET first == FirstExposing(hist.reg.mcp_clients, r.listed, n) IN
                         /\ hist.reg.tools[n] = Descriptor(first, n)
                         /\ hist.reg.tool_to_server[n] = first
                         /\ CallLookup(hist.reg, Fresh("call"), n).client.server = first
              /\ \A n \in UNION {ExposedNames(s) : s \in hist.exposed} :
                     /\ n \in DOMAIN hist.reg.tools
                     /\ Cardinality({m \in DOMAIN hist.reg.tools :
                                        hist.reg.tools[m].name = n}) = 1
                     /\ hist.reg.tools[n].server \in hist.exposed
                     /\ n \in ExposedNames(hist.reg.tools[n].server)
                     /\ hist.reg.tool_to_server[n] = hist.reg.tools[n].server
                     /\ CallLookup(hist.reg, Fresh("call"), n).client.server
                            = hist.reg.tools[n].server)
    /\ [][(\E t \in TaskIds : tasks[t].pc \in InitPcs) =>
              \A n \in DOMAIN tools :
                  /\ n \in DOMAIN tools'
                  /\ tools'[n] = tools[n]
                  /\ tool_to_server'[n] = tool_to_server[n]]_vars

\* Both backends listed their tools, s2 is configured before s1, and the
\* name they share went to s2.
DuplicateGoesToFirst ==
    /\ hist.last.op = "init"
    /\ hist.last.listed = {"s1", "s2"}
    /\ hist.reg.mcp_clients[1].server = "s2"
    /\ "search" \in DOMAIN hist.reg.tools
    /\ hist.reg.tools["search"].server = "s2"

\* C5: a call_tool that completes returns a ToolResult for the requested
\* name and raises nothing; an exception of the backend client becomes a
\* failed result carrying the exception text.
CallAlwaysReturnsResult ==
    hist.last.op = "call" =>
        /\ ~hist.last.raised
        /\ hist.last.result.tool_name = hist.last.name
        /\ hist.last.outcome = "raises" =>
               /\ ~hist.last.result.success
               /\ hist.last.result.error = "exception_text"

\* A call whose backend raised has returned.
BackendRaisedAndCallReturned ==
    /\ hist.last.op = "call"
    /\ hist.last.outcome = "raises"
    /\ ~hist.last.raised
    /\ ~hist.last.result.success

\* C6: call_tool with a name the registry does not hold returns a failed
\* result that names the tool and lists the registered names, raises
\* nothing and contacts no backend.
UnknownToolReported ==
    (hist.last.op = "call" /\ hist.last.name \notin DOMAIN hist.reg.tool_to_server) =>
        /\ ~hist.last.raised
        /\ hist.last.outcome = None
        /\ hist.last.result =
               ToolCallResult(hist.last.name, FALSE, "not_found", DOMAIN hist.reg.tools)

\* An unknown name was asked of a registry that holds several tools.
UnknownToolAsked ==
    /\ hist.last.op = "call"
    /\ hist.last.name = "nope"
    /\ hist.last.result.error = "not_found"
    /\ Cardinality(hist.last.result.names) >= 2

\* C7: a call that was in flight while a concurrent call's backend failed
\* completes with the outcome of its own backend call.
FailureStaysLocal ==
    (hist.last.op = "call" /\ hist.last.peer_failed) =>
        /\ ~hist.last.raised
        /\ hist.last.outcome = "ok" =>
               hist.last.result = ToolCallResult(hist.last.name, TRUE, "", {})
        /\ hist.last.outcome = "raises" => ~hist.last.result.success

\* A call succeeded although a concurrent call failed while it was in flight.
SucceededDespitePeerFailure ==
    /\ hist.last.op = "call"
    /\ hist.last.peer_failed
    /\ hist.last.outcome = "ok"
    /\ hist.last.result.success

\* C8: after reload_config(cfg2) the tools, the name map and the client
\* table hold only what cfg2's backends listed in the reload, and every
\* client is one the reload created.
ReloadLeavesOnlyNewConfig ==
    LET r == hist.last
        reg == hist.reg
        cfg2 == {r.cfg[i] : i \in 1..Len(r.cfg)}
    IN
    (r.op = "reload" /\ ~r.raised) =>
        /\ r.listed \subseteq cfg2
        /\ DOMAIN reg.tool_to_server = DOMAIN reg.tools
        /\ \A n \in DOMAIN reg.tools :
               /\ reg.tools[n].server \in r.listed
               /\ reg.tool_to_server[n] = reg.tools[n].server
               /\ n \in ExposedNames(reg.tools[n].server)
        /\ \A i \in 1..Len(reg.mcp_clients) :
               /\ reg.mcp_clients[i].gen = reg.generation
               /\ reg.mcp_clients[i].server \in cfg2
        /\ DOMAIN reg.client_initialized \subseteq cfg2

\* A reload replaced a registry that held tools by one that holds others.
ReloadDroppedOldTools ==
    /\ hist.last.op = "reload"
    /\ hist.last.cfg # <<>>
    /\ hist.reg.mcp_clients # <<>>
    /\ hist.last.pre \ DOMAIN hist.reg.tools # {}
    /\ DOMAIN hist.reg.tools # {}

\* A lookup that ran during a finished reload saw the tool names of before
\* the reload or those of after it.
NoPartialView ==
    (hist.last.op = "reload" /\ ~hist.last.raised) =>
        \A o \in hist.last.seen : o \in {hist.last.pre, hist.names}

\* No call_tool reaches a client on which a reload_config or close_all in
\* flight has called close().
NoCallToClosingClient ==
    \A t, u \in TaskIds :
        (/\ tasks[t].pc # "await_call"
         /\ tasks'[t].pc = "await_call"
         /\ tasks[u].op \in {"reload", "close"}
         /\ tasks[u].pc = "await_close") =>
            tasks'[t].client \notin {mcp_clients[k] : k \in 1..tasks[u].i}

\* C9: lookups that run during reload_config see the registry of before or
\* of after the reload, and no call_tool is sent to a client that
\* reload_config or close_all has started to close.
ReloadInvisibleToLookups == [][NoPartialView' /\ NoCallToClosingClient]_vars

\* A close_all returns.
CloseFinishes ==
    \/ hist'.closes > hist.closes
    \/ \E t \in TaskIds :
         tasks[t].op = "close" /\ tasks[t].pc = "await_close" /\ tasks'[t].pc = "idle"

\* C10: a close_all that follows a close_all, with at most lookups and
\* calls between the two, raises nothing, also when a
\* close() of a client raises, and leaves the registry as the first left it.
CloseAllIdempotent ==
    [][(hist.closes >= 1 /\ CloseFinishes) =>
           (~hist'.last.raised /\ hist'.reg = hist.reg)]_vars

\* Two close_all in a row over a registry with tools, the second of which
\* saw a close() raise.
ClosedTwiceWithFailure ==
    /\ hist.closes = 2
    /\ hist.last.outcome = "raises"
    /\ ~hist.last.raised
    /\ hist.reg.mcp_clients # <<>>
    /\ DOMAIN hist.reg.tools # {}

\* C11: a call_tool that runs after close_all has returned, and before any
\* new initialization, returns a failed ToolResult and raises nothing.
FailsAfterClose ==
    (hist.last.op = "call" /\ hist.closes >= 1) =>
        /\ ~hist.last.raised
        /\ ~hist.last.result.success

\* The servers of the clients a registry holds.
ClientServers(r) == {r.mcp_clients[i].server : i \in 1..Len(r.mcp_clients)}

\* C12, as stated: an initialization pass in which a backend failed, at
\* its availability check, its initialize() or its list_tools(), has
\* returned without raising, the table holds the tools of every other
\* backend that is connected, and the pass added no tool of a backend that
\* failed.
FailedBackendNeverAborts ==
    LET r == hist.last
        before == IF r.op = "reload" THEN {} ELSE r.pre
    IN
    (r.op \in {"init", "getdefs", "reload"} /\ r.failed # {}) =>
        /\ ~r.raised
        /\ \A s \in ClientServers(hist.reg) \ r.failed :
               Get(hist.reg.client_initialized, s, FALSE) =>
                   ExposedNames(s) \subseteq DOMAIN hist.reg.tools
        /\ \A n \in DOMAIN hist.reg.tools \ before :
               hist.reg.tools[n].server \notin r.failed

\* C12, amended: when a backend fails during an initialization pass with
\* anything but the RuntimeError of a missing MCP SDK, the pass goes on
\* with the next backend and returns; that RuntimeError is raised again and
\* ends the pass at the backend that raised it, and the only other
\* exception of a pass is that of server_manager.initialize_servers, before
\* any backend was tried. Returned or not, the pass has registered every
\* name of the backends whose list_tools() returned in it and has added no
\* tool of another backend. In a pass that returned, a backend that
\* neither listed its tools nor failed is one that was marked initialized
\* before: its initialize() was not called and it contributed nothing.
InitSkipsFailedBackend ==
    /\ [](LET r == hist.last
              before == IF r.op = "reload" THEN {} ELSE r.pre
          IN
          r.op \in {"init", "getdefs", "reload"} =>
              /\ r.raised =>
                     \/ /\ r.outcome = "raises_sdk"
                        /\ r.failed = {} => r.called = {} /\ r.listed = {}
                     \/ /\ r.outcome = "raises_servers"
                        /\ r.called = {} /\ r.listed = {} /\ r.failed = {}
              /\ r.listed \cap r.failed = {}
              /\ \A s \in r.listed : ExposedNames(s) \subseteq DOMAIN hist.reg.tools
              /\ \A n \in DOMAIN hist.reg.tools \ before :
                     /\ hist.reg.tools[n].server \in r.listed
                     /\ hist.reg.tools[n].server \notin r.failed)
    /\ [][\A t \in TaskIds :
              (tasks[t].pc \in InitPcs /\ tasks'[t].pc = "idle" /\ ~hist'.last.raised) =>
                  LET r == hist'.last IN
                  \A s \in ClientServers(hist'.reg) \ (r.listed \cup r.failed) :
                      /\ s \notin r.called
                      /\ Get(client_initialized, s, FALSE)
                      /\ Get(client_initialized', s, FALSE)]_vars

\* The first backend of the configuration failed and the tools of the
\* second were registered.
FirstFailedSecondRegistered ==
    /\ hist.last.op = "init"
    /\ ~hist.last.raised
    /\ hist.last.failed = {"s1"}
    /\ hist.last.listed = {"s2"}
    /\ hist.reg.mcp_clients[1].server = "s1"
    /\ DOMAIN hist.reg.tools = {"search", "weather"}

\* The chunks of the except clauses of the loop body of chat_stream.
ErrorChunks == {Chunk(LLMErrorText), Chunk(UnexpectedErrorText)}

\* C13: once a call of the completion service has raised, in detection or
\* in streaming, the loop of ChatService.chat_stream is over: the call that
\* raised is the last call made, the request is finished, and its events end
\* with the one chunk that carries the error text.
ErrorAbortsLoop ==
    entry = "service" =>
        \A i \in 1..Len(llm_calls) :
            llm_calls[i].raised =>
                /\ i = Len(llm_calls)
                /\ svcPc = "done"
                /\ events # <<>>
                /\ events[Len(events)] \in ErrorChunks
                /\ Len(SelectSeq(events, LAMBDA e : e \in ErrorChunks)) = 1

\* C14: one call of stream_llm_response issues at most one streaming
\* request to the completion service: no step of a request adds more than
\* one to the number of streaming requests.
OneRequestPerAnswer ==
    [][stream_requests' <= stream_requests + 1]_vars

\* The stream of the current iteration ended in a tool call whose arguments
\* json.loads rejected: the tool-error message is the last of the history,
\* the tool_error tuple the last one yielded, and no tool call is pending.
ParseFailurePending ==
    /\ entry \in {"agent", "server"}
    /\ agPc = "parse_error"
    /\ tool_call_data = NoToolCall
    /\ agMessages # <<>>
    /\ agMessages[Len(agMessages)].content = "parse_error"
    /\ agEvents # <<>>
    /\ agEvents[Len(agEvents)].type = "tool_error"

\* C15: after a tool call whose arguments are not valid JSON the agent goes
\* on whenever the iteration count is still below max_iterations: resumed
\* at the tool_error it has yielded, chat_stream does not end, so that
\* another model call follows.
ParseFailureContinues ==
    [][(ParseFailurePending /\ agIteration < max_iterations) => agPc' # "done"]_vars

\* The chunk events of a request, in order.
ChunksOf(evs) == SelectSeq(evs, LAMBDA e : e.type = "chunk")

\* The request ran tools, no call of the completion service raised and no
\* error chunk was sent, and it is finished.
FinishedAfterTools ==
    /\ entry = "service"
    /\ svcPc = "done"
    /\ tool_iterations > 0
    /\ \A i \in 1..Len(llm_calls) : ~llm_calls[i].raised
    /\ \A i \in 1..Len(events) : events[i] \notin ErrorChunks

\* C16: a request that executed tools never ends without a chunk, and when
\* the answer step after the tools delivered no chunk the request ends with
\* exactly one fallback chunk: the tried-but-found-nothing message when a
\* tool result carries a not-found indicator, the generic one otherwise.
ZeroChunksGetFallback ==
    FinishedAfterTools =>
        LET chunks == ChunksOf(events) IN
        /\ chunks # <<>>
        /\ accumulated_content = <<>> => chunks = <<FallbackChunk(messages)>>

\* C17: while the registry exports no function a request makes no detection
\* call and executes no tool, and every iteration it has been through issued
\* a streaming request with tools disabled.
NoFunctionsNoDetection ==
    (entry = "service" /\ functions = {}) =>
        /\ detect_calls = 0
        /\ tool_iterations = 0
        /\ \A i \in 1..Len(llm_calls) : llm_calls[i].op = "stream"
        /\ \A i \in 1..Len(events) : events[i].type = "chunk"
        /\ (iteration >= 1 /\ svcPc \in {"check", "loop", "done"}) =>
               stream_requests >= iteration

\* A request without functions that streamed its answer in the first
\* iteration and finished.
StreamedWithoutFunctions ==
    /\ entry = "service"
    /\ svcPc = "done"
    /\ functions = {}
    /\ messages # <<>>
    /\ iteration = 1
    /\ detect_calls = 0
    /\ stream_requests = 1
    /\ events = <<Chunk("txt")>>

\* Number of elements of a sequence that satisfy a test.
Count(seq, Test(_)) == Len(SelectSeq(seq, Test))

\* ChatService: every call of the detected batch has run, every started call
\* has ended, and the history holds one tool message per started call.
SvcBatchResolved ==
    LET starts == Count(events, LAMBDA e : e.type = "tool_call_start")
        ends == Count(events, LAMBDA e : e.type \in {"tool_call_end", "tool_call_error"})
        results == Count(messages, LAMBDA m : m.role = "tool")
    IN
    /\ tool_batch.started = tool_batch.done
    /\ tool_batch.started > 0 => tool_batch.done = Len(quick_detection.tool_calls)
    /\ starts = ends
    /\ starts = results

\* ChatAgent: the history msgs holds one tool message per tool call
\* detected.
AgToolResolved(msgs) ==
    Count(agEvents, LAMBDA e : e.type = "tool_call")
        = Count(msgs, LAMBDA m : m.role = "tool" /\ m.content # "parse_error")

\* C18: a step that starts the next iteration or issues a model call
\* (detection, streaming, or the agent's model request) is taken only when
\* every tool call of the current iteration has resolved and its result is
\* in the history; for the agent, in the history its model request sends.
ToolsResolvedBeforeAdvance ==
    [][/\ (\/ iteration' # iteration
           \/ detect_calls' # detect_calls
           \/ stream_requests' # stream_requests) => SvcBatchResolved
       /\ (\/ agIteration' > agIteration
           \/ model_requests' > model_requests) => AgToolResolved(stream'.messages)]_vars

\* A second detection call made after a batch of two tool calls.
DetectedAgainAfterBatch ==
    /\ entry = "service"
    /\ detect_calls = 2
    /\ tool_iterations = 1
    /\ Len(llm_calls) = 2
    /\ Count(events, LAMBDA e : e.type = "tool_call_start") = 2
    /\ Count(messages, LAMBDA m : m.role = "tool") = 2

\* C19: the history a model request of this request sends holds no message
\* appended while serving another request.
HistoryNotShared ==
    \A i \in 1..Len(stream.messages) :
        stream.messages[i].content \notin {"other_question", "other_answer"}

\* C20: a call that awaits its backend is never stuck: whatever the backend
\* does, a step of call_tool that returns the ToolResult can be taken.
CallNeverStuck ==
    \A t \in TaskIds : tasks[t].pc = "await_call" => ENABLED CallReturn(t)

\* The attributes of the registry and the state of its connections.
RegFields ==
    <<servers, tools, tool_to_server, mcp_clients, client_initialized,
      fully_initialized, generation, clientState>>

\* C21: a step of call_tool, whether it starts a call, reports an unknown
\* tool or returns the backend's result or error, leaves the tool map, the
\* tool-to-server map, the client table, the initialized flags, the
\* fully-initialized marker and the state of every connection unchanged.
CallToolOnlyReads ==
    [][(\/ \E t \in TaskIds : /\ tasks'[t] # tasks[t]
                             /\ "call" \in {tasks[t].op, tasks'[t].op}
        \/ hist' # hist /\ hist'.last.op = "call")
       => UNCHANGED RegFields]_vars

\* A call returned its result from a registry whose initialized flags
\* close_all had cleared and whose tools it had kept.
CalledWithClearedFlags ==
    /\ hist.last.op = "call"
    /\ hist.last.result.success
    /\ tools # EmptyMap
    /\ client_initialized = EmptyMap
    /\ ~fully_initialized

\* The step in which list_tools() of the backend that task t is initializing
\* raised: the task was awaiting the list and the backend joins those the
\* pass failed on.
ListToolsFailed(t) ==
    LET s == tasks[t].client.server IN
    /\ tasks[t].pc = "await_list"
    /\ \/ s \in tasks'[t].failed
       \/ tasks'[t].pc = "idle" /\ s \in hist'.last.failed

\* C22: when list_tools() of a backend fails during initialize_all after
\* its handshake succeeded, the backend is left not marked as initialized
\* and the tool map gains no descriptor.
ListFailureMarksFailed ==
    [][\A t \in TaskIds :
          ListToolsFailed(t) =>
              /\ ~Get(client_initialized', tasks[t].client.server, FALSE)
              /\ tools' = tools]_vars

\* C23: while the registry is marked fully initialized,
\* get_tool_function_definitions starts no initialization pass, and a step
\* of a repeated initialize_all leaves the tool map unchanged and awaits
\* initialize() of no backend that is marked initialized.
RepeatedInitChangesNothing ==
    [][fully_initialized =>
          \A t \in TaskIds :
              /\ tasks[t].op = "none" => tasks'[t].op # "getdefs"
              /\ "init" \in {tasks[t].op, tasks'[t].op} =>
                     /\ tools' = tools
                     /\ tasks'[t].pc = "await_initialize" =>
                            ~Get(client_initialized, tasks'[t].client.server, FALSE)]_vars

\* ---------------------------------------------------------------- C25

\* The first entry of the configuration that carries the name.
FirstEntry(name) ==
    CHOOSE i \in 1..Len(tool_configs) :
        /\ tool_configs[i].name = name
        /\ \A j \in 1..(i - 1) : tool_configs[j].name # name

\* C25: once the configuration-driven registry is loaded, the descriptor
\* listed for a name and the implementation call_tool uses for it are those
\* of the first configuration entry with that name, whatever follows it.
FirstRegistrationWins ==
    loaded =>
        \A i \in 1..Len(tool_configs) :
            LET name == tool_configs[i].name
                first == FirstEntry(name)
            IN /\ ConfigObject(tool_configs[first], first) \in list_tools
               /\ \A config \in list_tools : config.name = name => config.entry = first
               /\ get_tool(name) = load_tool_implementation(tool_configs[first], first)

\* ---------------------------------------------------------------- C26

\* C26: execute with add, subtract, multiply or divide on a and b succeeds
\* with a+b, a-b, a*b or the quotient a/b; divide by zero and every other
\* operation name fail.
CalculatorComputes ==
    arguments.called =>
        LET o == arguments.operation
            a == arguments.a
            b == arguments.b
            r == execution_result
        IN /\ o = "add" => r.success /\ r.data.result = a + b
           /\ o = "subtract" => r.success /\ r.data.result = a - b
           /\ o = "multiply" => r.success /\ r.data.result = a * b
           /\ (o = "divide" /\ b # 0) =>
                  /\ r.success
                  /\ r.data.result.den > 0
                  /\ r.data.result.num * b = a * r.data.result.den
           /\ (o = "divide" /\ b = 0) => ~r.success
           /\ o \notin {"add", "subtract", "multiply", "divide"} => ~r.success

TenPlusFive ==
    /\ arguments = [operation |-> "add", a |-> 10, b |-> 5, called |-> TRUE]
    /\ execution_result.success
    /\ execution_result.data.result = 15

\* ---------------------------------------------------------------- C27

\* C27: in the agent's history every tool-role message comes right after an
\* assistant tool-request message that carries the same tool call id.
ToolMessageFollowsItsRequest ==
    \A i \in 1..Len(agMessages) :
        agMessages[i].role = "tool" =>
            /\ i > 1
            /\ agMessages[i - 1].role = "assistant"
            /\ agMessages[i - 1].content = "tool_calls"
            /\ agMessages[i - 1].tool_call_id = agMessages[i].tool_call_id

\* ---------------------------------------------------------------- C28

\* The tool calls a response carries: the delta that opens each call, with
\* the call's id and name.
ToolCallsOf(deltas) ==
    SelectSeq(deltas, LAMBDA d : d.kind = "tool" /\ d.args = "")

\* C28: once a response with several tool calls has been handled, each of
\* its calls was announced under its own name and has a tool-result message
\* with its own id in the history.
EveryToolCallDispatched ==
    (/\ entry \in {"agent", "server"}
     /\ agPc \in {"continue", "done"}
     /\ ~stream.raises
     /\ Len(ToolCallsOf(stream.deltas)) > 1) =>
        \A k \in 1..Len(ToolCallsOf(stream.deltas)) :
            LET call == ToolCallsOf(stream.deltas)[k] IN
            /\ \E i \in 1..Len(agEvents) :
                   /\ agEvents[i].type = "tool_call"
                   /\ agEvents[i].name = call.name
            /\ \E i \in 1..Len(agMessages) :
                   /\ agMessages[i].role = "tool"
                   /\ agMessages[i].tool_call_id = call.id

\* ---------------------------------------------------------------- C29

\* The step of chat_stream that handles the pending tool call.
ToolStep == agPc = "tool_call" /\ agPc' # agPc

\* The history ends with the tool-role message of a failed tool call.
EndsWithToolFailure(msgs) ==
    /\ msgs # <<>>
    /\ msgs[Len(msgs)].role = "tool"
    /\ msgs[Len(msgs)].content \in {"not_registered", "tool_raised"}

\* C29: a tool that is not registered or that raises does not end the
\* request. The step appends the error as a tool-role message under the
\* call's id and yields one tool_error tuple, at which chat_stream is
\* suspended; resumed there while the iteration count is below
\* max_iterations, it makes a model request with the history as it then
\* stands, and that step is possible while the bound MaxAgentIterations on
\* the requests of one run allows it.
ToolFailureKeepsRequestGoing ==
    /\ [][/\ (ToolStep /\ tool_call_data.name \notin RegisteredTools) =>
                /\ agPc' = "continue"
                /\ EndsWithToolFailure(agMessages')
                /\ agMessages'[Len(agMessages')].tool_call_id = tool_call_data.id
                /\ agEvents' = Append(agEvents, [type |-> "tool_error",
                                                 name |-> tool_call_data.name])
          /\ (ToolStep /\ tool_call_data.name \in RegisteredTools) =>
                /\ Len(agEvents') = Len(agEvents) + 1
                /\ agEvents'[Len(agEvents')].type = "tool_error" =>
                      /\ agPc' = "continue"
                      /\ EndsWithToolFailure(agMessages')
                      /\ agMessages'[Len(agMessages')].tool_call_id = tool_call_data.id
                /\ agEvents'[Len(agEvents')].type # "tool_error" =>
                      /\ agPc' = "tool_result"
                      /\ agMessages' = agMessages
          /\ (/\ agPc = "continue"
              /\ agPc' # agPc
              /\ agIteration < max_iterations) =>
                /\ model_requests' = model_requests + 1
                /\ agIteration' = agIteration + 1
                /\ stream'.messages = agMessages
                /\ \E i \in 1..Len(agMessages) :
                       agMessages[i].content \in {"not_registered", "tool_raised"}]_vars
    /\ [](/\ entry \in {"agent", "server"}
          /\ agPc = "continue"
          /\ agIteration < max_iterations
          /\ model_requests < MaxAgentIterations
          => ENABLED AgModelCall)

ModelAskedAfterBothFailures ==
    /\ model_requests = 3
    /\ \E i \in 1..Len(agMessages) : agMessages[i].content = "not_registered"
    /\ \E i \in 1..Len(agMessages) : agMessages[i].content = "tool_raised"

\* ---------------------------------------------------------------- C30

\* C30: a request that ends with the iteration count at max_iterations,
\* with no answer in the history, and not because the stream raised or a
\* tool call came without a name, has yielded the fallback message.
FallbackWhenIterationsRunOut ==
    (/\ entry \in {"agent", "server"}
     /\ agPc = "done"
     /\ agIteration >= max_iterations
     /\ \A i \in 1..Len(agMessages) : agMessages[i].content # "answer"
     /\ \A i \in 1..Len(agEvents) :
            /\ agEvents[i].type # "error_text"
            /\ ~(agEvents[i].type = "tool_error" /\ agEvents[i].name = "unknown")) =>
        \E i \in 1..Len(agEvents) : agEvents[i].type = "fallback"

\* ---------------------------------------------------------------- C31

\* C31: between the creation of a backend's client and the next
\* reload_config or close_all, initialize() is called on it at most once,
\* also when initialize_all and get_tool_function_definitions overlap.
InitializedAtMostOnce ==
    \A s \in ServerNames : initialize_calls[s] <= 1

\* ---------------------------------------------------------------- C32

\* The events a step appends, and the deltas among their contents.
NewEvents == SubSeq(events', Len(events) + 1, Len(events'))
NewDeltas == SelectSeq([i \in 1..Len(NewEvents) |-> NewEvents[i].content],
                       LAMBDA c : c \in Deltas)

\* C32: the steps that follow a detection with content and no tool call
\* take the stream of the final answer from one yield to the next: each
\* issues streaming requests only, the first of them at least one, appends
\* chunk events only, after the events already yielded, forwards the
\* non-empty deltas in the order they are accumulated, executes no tool and
\* either has forwarded one more delta or ends the request; the stream is
\* reached only after such a detection, and a request that has ended makes
\* no further detection call.
FinalStreamEndsRequest ==
    /\ [][/\ svcPc = "stream_final" =>
                /\ svcPc' \in {"stream_final", "done"}
                /\ svcPc' = "stream_final" =>
                       /\ Len(events') = Len(events) + 1
                       /\ events'[Len(events')].content \in Deltas
                /\ Len(events') >= Len(events)
                /\ SubSeq(events', 1, Len(events)) = events
                /\ \A i \in 1..Len(NewEvents) : NewEvents[i].type = "chunk"
                /\ NonEmptyDeltas(NewDeltas) =
                       SubSeq(accumulated_content', Len(accumulated_content) + 1,
                              Len(accumulated_content'))
                /\ stream_requests' >= stream_requests
                /\ chunk_stream = NoStream => stream_requests' > stream_requests
                /\ Len(llm_calls') - Len(llm_calls) = stream_requests' - stream_requests
                /\ \A i \in (Len(llm_calls) + 1)..Len(llm_calls') :
                       llm_calls'[i].op = "stream"
                /\ detect_calls' = detect_calls
                /\ tool_iterations' = tool_iterations
                /\ messages' = messages
          /\ (entry = "service" /\ svcPc = "done") =>
                /\ svcPc' = "done"
                /\ detect_calls' = detect_calls
                /\ tool_iterations' = tool_iterations]_vars
    /\ [](svcPc = "stream_final" =>
             /\ quick_detection.kind = "result"
             /\ quick_detection.tool_calls = <<>>
             /\ quick_detection.content # "")

\* The final answer of a request, streamed in two deltas after the first
\* detection, each forwarded at its own yield.
AnswerStreamedAfterDetection ==
    /\ entry = "service"
    /\ svcPc = "done"
    /\ quick_detection.kind = "result"
    /\ quick_detection.tool_calls = <<>>
    /\ quick_detection.content # ""
    /\ detect_calls = 1
    /\ stream_requests = 1
    /\ accumulated_content = <<"txt", "txt">>
    /\ events = <<Chunk("txt"), Chunk("txt")>>

\* ---------------------------------------------------------------- C33

\* C33: every tool_result and tool_error tuple the agent yields comes after
\* a tool_call tuple for the same tool, with no other tool tuple between
\* the two.
ToolEventFollowsItsStart ==
    \A i \in 1..Len(agEvents) :
        agEvents[i].type \in {"tool_result", "tool_error"} =>
            \E j \in 1..(i - 1) :
                /\ agEvents[j].type = "tool_call"
                /\ agEvents[j].name = agEvents[i].name
                /\ \A k \in (j + 1)..(i - 1) :
                       agEvents[k].type \notin {"tool_call", "tool_result", "tool_error"}

\* ---------------------------------------------------------------- C34

\* Functions are exported and every detection call so far returned, with
\* neither tool calls nor content.
OnlyEmptyDetections ==
    /\ entry = "service"
    /\ functions # {}
    /\ detect_calls >= 1
    /\ Len(llm_calls) = detect_calls
    /\ \A i \in 1..Len(llm_calls) : llm_calls[i].op = "detect" /\ ~llm_calls[i].raised
    /\ quick_detection.tool_calls = <<>>
    /\ quick_detection.content = ""
    /\ tool_iterations = 0
    /\ tool_batch = NoBatch
    /\ stream_requests = 0

\* C34: with functions exported and only empty detections, nothing is
\* emitted while the request runs, and the request ends after
\* max_tool_iterations detection calls with exactly one chunk, the generic
\* processing-error message.
EmptyDetectionsEndInOneFallback ==
    OnlyEmptyDetections =>
        IF svcPc = "done"
        THEN /\ events = <<Chunk(FallbackGeneric)>>
             /\ detect_calls = max_tool_iterations
             /\ iteration = max_tool_iterations
        ELSE events = <<>>

FallbackAfterEmptyDetections ==
    /\ OnlyEmptyDetections
    /\ svcPc = "done"
    /\ detect_calls = max_tool_iterations
    /\ events = <<Chunk(FallbackGeneric)>>


\* The tool message made of the formatted content, as the chat service
\* appends it to the conversation.
FormattedToolMessage == <<[role |-> "tool", content |-> ToolContent(formatted.content)]>>

\* C35: every tool result that format_tool_result_for_llm treats as a
\* nothing-found shape (an empty answers list, a missing answer or found =
\* false, an empty results list) is formatted into a tool message that
\* check_tools_used_but_no_info recognises as no information found, and no
\* result carrying a real answer is recognised as such.
NothingFoundIsRecognised ==
    /\ formatted.shape = "nothing_found"
           => check_tools_used_but_no_info(FormattedToolMessage)
    /\ formatted.shape = "found"
           => ~check_tools_used_but_no_info(FormattedToolMessage)


\* C36: after any interleaving of initialize_all, reload_config, close_all
\* and call_tool, the tool map and the tool-to-backend map have the same set
\* of names, and every backend named in the tool-to-backend map has an entry
\* in the client table.
ToolMapsAgree ==
    (\A t \in TaskIds : Free(t)) =>
        /\ DOMAIN tools = DOMAIN tool_to_server
        /\ \A n \in DOMAIN tool_to_server :
               \E i \in 1..Len(mcp_clients) : mcp_clients[i].server = tool_to_server[n]


\* A step of a close_all, from its call to its return.
CloseAllStep ==
    \/ CloseFinishes
    \/ \E t \in TaskIds : tasks[t].op = "close" \/ tasks'[t].op = "close"

\* C37: close_all changes only connection state: it closes the clients,
\* clears the per-backend initialized flags and resets the fully-initialized
\* marker. The tool map, the tool-to-backend map and the client table are
\* the same before and after, so list_tools returns after close_all the
\* descriptors it returned before.
CloseAllKeepsTables ==
    /\ [][CloseAllStep =>
            /\ tools' = tools
            /\ tool_to_server' = tool_to_server
            /\ mcp_clients' = mcp_clients
            /\ servers' = servers
            /\ generation' = generation
            /\ \A s \in ServerNames :
                   clientState'[s] # clientState[s] => clientState'[s] = "closed"]_vars
    /\ [][CloseFinishes =>
            /\ ~fully_initialized'
            /\ client_initialized' = EmptyMap
            /\ hist'.names = hist.names]_vars
    /\ [][(hist.last.op = "close" /\ hist'.last.op = "list") =>
            hist'.last.result = ToolCallResult("", TRUE, "", hist.names)]_vars

\* list_tools has returned the tools of a registry that close_all had
\* closed after its initialization.
ListedAfterClose ==
    /\ hist.last.op = "list"
    /\ hist.closes = 1
    /\ hist.last.result.names # {}
    /\ hist.last.result.names = DOMAIN tools
    /\ ~fully_initialized
    /\ client_initialized = EmptyMap
    /\ \E s \in ServerNames : clientState[s] = "closed"


\* The first get_tool_function_definitions after a close_all returns or
\* raises; only call_tool and list_tools ran between the two.
DefsAfterCloseFinish ==
    /\ hist.closes >= 1
    /\ hist'.closes = 0
    /\ hist'.last.op = "getdefs"

\* The backends of the client table.
Backends == {mcp_clients[i].server : i \in 1..Len(mcp_clients)}

\* C38, as stated: after close_all, the next get_tool_function_definitions
\* runs initialize_all again and calls initialize() on every backend client
\* once more, after which the fully-initialized marker is set again.
ReinitializesEveryBackend ==
    [][DefsAfterCloseFinish =>
           /\ hist'.last.called = Backends
           /\ fully_initialized']_vars

\* C38, amended: after close_all, the next get_tool_function_definitions
\* runs initialize_all again. A pass that returns has called initialize()
\* once more on every local backend client and on every external one whose
\* server it found available, has skipped or logged the others, and has set
\* the fully-initialized marker again; a pass that raises, for a missing MCP
\* SDK or because server_manager.initialize_servers raised, leaves the
\* marker unset.
ReinitializesAvailableBackends ==
    [][DefsAfterCloseFinish =>
           LET r == hist'.last IN
           IF r.raised
           THEN r.outcome \in {"raises_sdk", "raises_servers"} /\ ~fully_initialized'
           ELSE /\ fully_initialized'
                /\ {s \in Backends : IsLocal(s)} \subseteq r.called
                /\ r.called \subseteq Backends
                /\ Backends \ r.called \subseteq r.failed
                /\ r.listed \subseteq r.called
                /\ r.result = ToolCallResult("", TRUE, "", DOMAIN tools')]_vars

\* A get_tool_function_definitions has returned after calling initialize()
\* on both backends, in a registry that held the tools of s1 when it began:
\* the flag of s1 had been cleared and its tools kept, which only close_all
\* does.
ReinitializedAfterClose ==
    /\ hist.last.op = "getdefs"
    /\ ~hist.last.raised
    /\ hist.last.called = {"s1", "s2"}
    /\ "faq" \in hist.last.pre
    /\ fully_initialized
    /\ \A s \in ServerNames : clientState[s] = "ready"

====
